---- MODULE Spec2Model ----
(***************************************************************************)
(* unimotion-rs: the serial protocol of a UniStation base station.         *)
(*                                                                         *)
(*   device.rs   Response::from (line classifier and parser), the binary   *)
(*               decoders for Quaternion, SensorInfo and Datagram          *)
(*   manager.rs  the ingress thread (frame reader and router), the eight   *)
(*               crossbeam queues, begin (the handshake), get_*, flush,    *)
(*               send_command, sensors, update                             *)
(*                                                                         *)
(* A byte is a one-character string; the bytes 10, 13 and 9 are written    *)
(* "LF", "CR" and "TAB", a byte that is not valid UTF-8 is written "xFF"   *)
(* and the replacement character U+FFFD that from_utf8_lossy puts in its   *)
(* place is written "uFFFD" (three bytes long in a str).                   *)
(***************************************************************************)
EXTENDS Integers, Sequences, FiniteSets, TLC

VARIABLES
    input,           \* pure-function harness: the byte vector under test
    output,          \* pure-function harness: what Response::from returned
    reader,          \* ingress thread: "running", or how it ended
    buffer,          \* ingress thread: the line buffer
    queue,           \* the eight crossbeam channels, by Response variant
    receivers,       \* the manager (and its Channels) has not been dropped
    port,            \* the lines written to the serial port, oldest first
    pc,              \* the session thread: where it is in new/begin/an operation
    counter,         \* get_devices_timeout: counter
    res,             \* get_devices_timeout: res, indexed 0..23
    sensors,         \* UnimotionManager.sensors, indexed 0..23
    ret,             \* what the last operation of the session returned
    fl,              \* flush: the queue being drained (1..8)
    g,               \* ghost: what the ingress thread has done so far
    rcvd             \* ghost: the kinds of the values begin has received

vars == << input, output, reader, buffer, queue, receivers,
           port, pc, counter, res, sensors, ret, fl, g, rcvd >>

----------------------------------------------------------------------------
(* Text helpers: what the std string functions used by device.rs compute.  *)

\* bytes a character takes in a str (str::len counts bytes)
Width(c) == IF c = "uFFFD" THEN 3 ELSE 1

RECURSIVE StrLen(_)
StrLen(s) == IF s = <<>> THEN 0 ELSE Width(Head(s)) + StrLen(Tail(s))

\* String::from_utf8_lossy: invalid bytes become U+FFFD
FromUtf8Lossy(vec) ==
    [i \in 1..Len(vec) |-> IF vec[i] = "xFF" THEN "uFFFD" ELSE vec[i]]

WhiteSpace == {" ", "LF", "CR", "TAB"}

RECURSIVE TrimStart(_)
TrimStart(s) ==
    IF s # <<>> /\ Head(s) \in WhiteSpace THEN TrimStart(Tail(s)) ELSE s

RECURSIVE TrimEnd(_)
TrimEnd(s) ==
    IF s # <<>> /\ s[Len(s)] \in WhiteSpace
    THEN TrimEnd(SubSeq(s, 1, Len(s) - 1)) ELSE s

Trim(s) == TrimEnd(TrimStart(s))

\* str::split(' '): the pieces between single spaces, empty pieces kept
RECURSIVE SplitFrom(_, _, _)
SplitFrom(s, i, cur) ==
    IF i > Len(s) THEN <<cur>>
    ELSE IF s[i] = " " THEN <<cur>> \o SplitFrom(s, i + 1, <<>>)
    ELSE SplitFrom(s, i + 1, Append(cur, s[i]))

Split(s) == SplitFrom(s, 1, <<>>)

\* &line[n..line.len()] for an ASCII prefix of n bytes
SliceFrom(s, n) == SubSeq(s, n + 1, Len(s))

Digits == <<"0", "1", "2", "3", "4", "5", "6", "7", "8", "9">>

DigitSet == {Digits[i] : i \in 1..10}

DigitVal(c) == (CHOOSE i \in 1..10 : Digits[i] = c) - 1

RECURSIVE DecValue(_, _)
DecValue(s, acc) ==
    IF s = <<>> THEN acc ELSE DecValue(Tail(s), acc * 10 + DigitVal(Head(s)))

RECURSIVE StripZeros(_)
StripZeros(s) ==
    IF Len(s) > 1 /\ Head(s) = "0" THEN StripZeros(Tail(s)) ELSE s

\* s <= t for two digit strings without leading zeros
RECURSIVE DigitsLeq(_, _)
DigitsLeq(s, t) ==
    IF Len(s) # Len(t) THEN Len(s) < Len(t)
    ELSE IF s = <<>> THEN TRUE
    ELSE IF Head(s) # Head(t) THEN DigitVal(Head(s)) < DigitVal(Head(t))
    ELSE DigitsLeq(Tail(s), Tail(t))

\* the digits of an unsigned literal: an optional '+', then at least one
\* decimal digit (<<>> stands for "not a number")
UnsignedDigits(s) ==
    LET body == IF s # <<>> /\ Head(s) = "+" THEN Tail(s) ELSE s
    IN  IF body = <<>> \/ \E i \in 1..Len(body) : body[i] \notin DigitSet
        THEN <<>> ELSE StripZeros(body)

\* str::parse::<u8>(): the value, or -1 for Err (more than 255 overflows)
ParseU8(s) ==
    LET d == UnsignedDigits(s)
    IN  IF d = <<>> \/ Len(d) > 3 THEN -1
        ELSE IF DecValue(d, 0) > 255 THEN -1 ELSE DecValue(d, 0)

U64MaxDigits ==
    <<"1", "8", "4", "4", "6", "7", "4", "4", "0", "7",
      "3", "7", "0", "9", "5", "5", "1", "6", "1", "5">>

\* a u64 parser without the overflow check
ParseU64_unchecked(s) == UnsignedDigits(s)

\* str::parse::<u64>(): the value as its decimal digits (a u64 does not fit
\* TLC's integers), or <<>> for Err (more than 2^64 - 1 overflows)
ParseU64(s) ==
    LET d == UnsignedDigits(s)
    IN  IF d = <<>> \/ ~DigitsLeq(d, U64MaxDigits) THEN <<>> ELSE d

----------------------------------------------------------------------------
(* base64::engine::general_purpose::STANDARD.decode: the standard alphabet, *)
(* canonical '=' padding required, non-zero trailing bits refused.          *)

B64Alphabet == <<
    "A", "B", "C", "D", "E", "F", "G", "H", "I", "J", "K", "L", "M", "N", "O", "P",
    "Q", "R", "S", "T", "U", "V", "W", "X", "Y", "Z", "a", "b", "c", "d", "e", "f",
    "g", "h", "i", "j", "k", "l", "m", "n", "o", "p", "q", "r", "s", "t", "u", "v",
    "w", "x", "y", "z", "0", "1", "2", "3", "4", "5", "6", "7", "8", "9", "+", "/">>

B64Set == {B64Alphabet[i] : i \in 1..64}

B64Val(c) == (CHOOSE i \in 1..64 : B64Alphabet[i] = c) - 1

\* number of '=' at the end of s
RECURSIVE PadCount(_)
PadCount(s) ==
    IF s # <<>> /\ s[Len(s)] = "=" THEN 1 + PadCount(SubSeq(s, 1, Len(s) - 1))
    ELSE 0

\* the three bytes of one quantum of four symbols
Quantum(a, b, c, d) ==
    << a * 4 + b \div 16, (b % 16) * 16 + c \div 4, (c % 4) * 64 + d >>

RECURSIVE DecodeSymbols(_)
DecodeSymbols(v) ==
    IF Len(v) >= 4
    THEN Quantum(v[1], v[2], v[3], v[4]) \o DecodeSymbols(SubSeq(v, 5, Len(v)))
    ELSE IF Len(v) = 3 THEN SubSeq(Quantum(v[1], v[2], v[3], 0), 1, 2)
    ELSE IF Len(v) = 2 THEN SubSeq(Quantum(v[1], v[2], 0, 0), 1, 1)
    ELSE <<>>

\* [ok |-> FALSE] for a DecodeError, else [ok |-> TRUE, bytes |-> the bytes]
B64Decode(s) ==
    LET n    == Len(s)
        npad == PadCount(s)
        sym  == SubSeq(s, 1, n - npad)
        vals == [i \in 1..Len(sym) |-> B64Val(sym[i])]
        m    == Len(sym) % 4
    IN  IF \/ n % 4 # 0
           \/ npad > 2
           \/ \E i \in 1..Len(sym) : sym[i] \notin B64Set
           \/ (npad > 0 /\ m + npad # 4)
        THEN [ok |-> FALSE]
        ELSE IF \/ (m = 3 /\ vals[Len(vals)] % 4 # 0)
                \/ (m = 2 /\ vals[Len(vals)] % 16 # 0)
        THEN [ok |-> FALSE]
        ELSE [ok |-> TRUE, bytes |-> DecodeSymbols(vals)]

----------------------------------------------------------------------------
(* Binary codec (device.rs).  A byte is 0..255, a MacAddr6 six bytes.      *)

HexDigits == <<"0", "1", "2", "3", "4", "5", "6", "7", "8", "9",
               "A", "B", "C", "D", "E", "F">>

HexLower == <<"0", "1", "2", "3", "4", "5", "6", "7", "8", "9",
              "a", "b", "c", "d", "e", "f">>

HexSet == {HexDigits[i] : i \in 1..16} \cup {HexLower[i] : i \in 1..16}

HexVal(c) ==
    (CHOOSE i \in 1..16 : HexDigits[i] = c \/ HexLower[i] = c) - 1

MacNil == <<0, 0, 0, 0, 0, 0>>

is_nil(addr) == addr = MacNil

\* u16 as i16
AsI16(u) == IF u >= 32768 THEN u - 65536 ELSE u

\* -(z as i16): i16::MIN has no negation; a build with overflow checks
\* panics there, a build without them wraps to i16::MIN
NegOverflows(v) == v = -32768

WrappingNeg(v) == IF v = -32768 THEN -32768 ELSE 0 - v

\* impl From<[u8; 8]> for Quaternion; value is 1-indexed here
QuaternionFrom(value, checks) ==
    LET w == value[1] + value[2] * 256
        y == value[3] + value[4] * 256
        z == value[5] + value[6] * 256
        x == value[7] + value[8] * 256
    IN  IF NegOverflows(AsI16(z)) /\ checks THEN [tag |-> "Panic"]
        ELSE [tag |-> "Quaternion", x |-> AsI16(x), y |-> AsI16(y),
              z |-> WrappingNeg(AsI16(z)), w |-> AsI16(w)]

NoQuaternion == [tag |-> "None"]

\* impl From<[u8; 19]> for SensorInfo
SensorInfoFrom19(value) ==
    [ sensor_version |-> value[1], mystery_value |-> value[2],
      mac_address |-> SubSeq(value, 3, 8), channel |-> value[9],
      tx_power |-> value[10], datamode |-> value[12],
      six_axis |-> value[18] % 2 # 0, imu_flip |-> value[19] % 2 # 0,
      min_mag_th |-> 255, max_mag_th |-> 255 ]

\* the thresholds read one byte early
SensorInfoFrom23_shifted(value) ==
    [ sensor_version |-> value[1], mystery_value |-> value[2],
      mac_address |-> SubSeq(value, 3, 8), channel |-> value[9],
      tx_power |-> value[10], datamode |-> value[12],
      six_axis |-> value[18] % 2 # 0, imu_flip |-> value[19] % 2 # 0,
      min_mag_th |-> value[21], max_mag_th |-> value[22] ]

\* impl From<[u8; 23]> for SensorInfo
SensorInfoFrom23(value) ==
    [ sensor_version |-> value[1], mystery_value |-> value[2],
      mac_address |-> SubSeq(value, 3, 8), channel |-> value[9],
      tx_power |-> value[10], datamode |-> value[12],
      six_axis |-> value[18] % 2 # 0, imu_flip |-> value[19] % 2 # 0,
      min_mag_th |-> value[22], max_mag_th |-> value[23] ]

\* Parseable<[u8; 20]>::parse_data
parse_data_20(value, checks) ==
    LET q1 == QuaternionFrom(SubSeq(value, 3, 10), checks)
        q2 == QuaternionFrom(SubSeq(value, 11, 18), checks)
    IN  IF q1.tag = "Panic" \/ q2.tag = "Panic" THEN [tag |-> "Panic"]
        ELSE [tag |-> "Ok",
              data |-> [ id |-> value[1], battery_voltage |-> value[2],
                         quaternions |-> <<q1, q2, NoQuaternion, NoQuaternion>>,
                         ahrs_enable |-> value[19],
                         magnetic_power |-> value[20] ]]

\* Parseable<[u8; 10|12|18|34|36]>::parse_data: Err("Not implemented")
parse_data_unimplemented(value) == [tag |-> "Err", msg |-> "Not implemented"]

----------------------------------------------------------------------------
(* Line classifier and parser (device.rs, mod parsing).  A parser returns  *)
(* [tag |-> "Err"], [tag |-> "Panic"] (the thread unwinds) or its value.   *)

Err == [tag |-> "Err"]

Panic == [tag |-> "Panic"]

\* MacAddr6::from_str as parse_dev uses it: twelve hex digits, or six pairs
\* of hex digits joined by ':' or by '-'; <<>> stands for Err
MacFromStr(s) ==
    IF Len(s) = 12 /\ \A i \in 1..12 : s[i] \in HexSet
    THEN [k \in 1..6 |-> HexVal(s[2 * k - 1]) * 16 + HexVal(s[2 * k])]
    ELSE IF /\ Len(s) = 17
            /\ s[3] \in {":", "-"}
            /\ \A k \in 1..5 : s[3 * k] = s[3]
            /\ \A k \in 1..6 : s[3 * k - 2] \in HexSet /\ s[3 * k - 1] \in HexSet
    THEN [k \in 1..6 |-> HexVal(s[3 * k - 2]) * 16 + HexVal(s[3 * k - 1])]
    ELSE <<>>

RECURSIVE Concat(_)
Concat(ss) == IF ss = <<>> THEN <<>> ELSE Head(ss) \o Concat(Tail(ss))

parse_si(line) ==
    LET v == Split(line)
    IN  IF Len(v) # 2 THEN Err
        ELSE IF ParseU8(v[1]) = -1 THEN Err
        ELSE IF ~B64Decode(v[2]).ok THEN Err
        ELSE LET bytes == B64Decode(v[2]).bytes
             IN  IF Len(bytes) = 19
                 THEN [tag |-> "SensorInfo", id |-> ParseU8(v[1]),
                       info |-> SensorInfoFrom19(bytes)]
                 ELSE IF Len(bytes) = 23
                 THEN [tag |-> "SensorInfo", id |-> ParseU8(v[1]),
                       info |-> SensorInfoFrom23(bytes)]
                 ELSE Err

\* the fields joined as they are, a single digit not padded
parse_dev_unpadded(line) ==
    LET v == Split(line)
    IN  IF Len(v) # 7 THEN Err
        ELSE IF ParseU8(v[1]) = -1 THEN Err
        ELSE LET addr == Concat([k \in 1..6 |-> v[k + 1]])
             IN  IF MacFromStr(addr) = <<>> THEN Err
                 ELSE [tag |-> "Device", id |-> ParseU8(v[1]),
                       addr |-> MacFromStr(addr)]

parse_dev(line) ==
    LET v == Split(line)
    IN  IF Len(v) # 7 THEN Err
        ELSE IF ParseU8(v[1]) = -1 THEN Err
        ELSE LET addr == Concat([k \in 1..6 |->
                            IF StrLen(v[k + 1]) < 2 THEN <<"0">> \o v[k + 1]
                            ELSE v[k + 1]])
             IN  IF MacFromStr(addr) = <<>> THEN Err
                 ELSE [tag |-> "Device", id |-> ParseU8(v[1]),
                       addr |-> MacFromStr(addr)]

parse_ch(line) ==
    IF ParseU8(line) = -1 THEN Err
    ELSE [tag |-> "Channel", channel |-> ParseU8(line)]

parse_auto_off(line) ==
    LET v == Split(line)
    IN  IF Len(v) # 2 THEN Err
        ELSE IF ParseU8(v[1]) = -1 \/ ParseU64(v[2]) = <<>> THEN Err
        ELSE [tag |-> "AutoOff", enable |-> ParseU8(v[1]),
              duration |-> ParseU64(v[2])]

\* the empty remainder refused
parse_ok_named(line) ==
    IF line = <<"E", "S", "P", "_", "R", "E", "S", "T", "A", "R", "T">>
    THEN [tag |-> "Acknowledge", ack |-> "RestartAP"]
    ELSE IF line = <<"W", "I", "F", "I", "_", "O", "N">>
    THEN [tag |-> "Acknowledge", ack |-> "StartWifi"]
    ELSE IF line = <<"Q", "U", "I", "T", "_", "C", "O", "N", "F", "I", "G">>
    THEN [tag |-> "Acknowledge", ack |-> "QuitConfig"]
    ELSE Err

parse_ok(line) ==
    IF line = <<>> THEN [tag |-> "Acknowledge", ack |-> "Alive"]
    ELSE IF line = <<"E", "S", "P", "_", "R", "E", "S", "T", "A", "R", "T">>
    THEN [tag |-> "Acknowledge", ack |-> "RestartAP"]
    ELSE IF line = <<"W", "I", "F", "I", "_", "O", "N">>
    THEN [tag |-> "Acknowledge", ack |-> "StartWifi"]
    ELSE IF line = <<"Q", "U", "I", "T", "_", "C", "O", "N", "F", "I", "G">>
    THEN [tag |-> "Acknowledge", ack |-> "QuitConfig"]
    ELSE Err

parse_datamode(line) ==
    IF ParseU8(line) = -1 THEN Err
    ELSE [tag |-> "Datamode", dm |-> ParseU8(line)]

\* one un-prefixed arm of parse: decode line followed by pad, take
\* bytes[..n] (a panic when fewer were decoded) and parse the datagram
parse_telemetry(line, pad, n, checks) ==
    LET dec == B64Decode(line \o pad)
    IN  IF ~dec.ok THEN Err
        ELSE IF Len(dec.bytes) < n THEN Panic
        ELSE IF n = 20
        THEN LET r == parse_data_20(SubSeq(dec.bytes, 1, n), checks)
             IN  IF r.tag = "Ok" THEN [tag |-> "Data", data |-> r.data] ELSE r
        ELSE parse_data_unimplemented(SubSeq(dec.bytes, 1, n))

Prefix_si == <<"_", "s", "i">>

Prefix_dev == <<"_", "d", "e", "v">>

Prefix_ch == <<"_", "c", "h">>

Prefix_auto_off == <<"_", "a", "u", "t", "o", "_", "o", "f", "f">>

Prefix_ok == <<"_", "o", "k">>

Prefix_datamode == <<"_", "d", "a", "t", "a", "m", "o", "d", "e">>

\* the length of the line looked at before its first word
first_word_unless_length(line) ==
    IF StrLen(line) \in {14, 16, 24, 27, 46, 48} THEN <<>> ELSE Split(line)[1]

\* words[0] of line.split(' ')
first_word(line) == Split(line)[1]

\* parsing::parse
parse(line, checks) ==
    LET words == << first_word(line) >>
        rest(prefix) == TrimStart(SliceFrom(line, Len(prefix)))
    IN  IF words[1] = Prefix_si THEN parse_si(rest(Prefix_si))
        ELSE IF words[1] = Prefix_dev THEN parse_dev(rest(Prefix_dev))
        ELSE IF words[1] = Prefix_ch THEN parse_ch(rest(Prefix_ch))
        ELSE IF words[1] = Prefix_auto_off
        THEN parse_auto_off(rest(Prefix_auto_off))
        ELSE IF words[1] = Prefix_ok THEN parse_ok(rest(Prefix_ok))
        ELSE IF words[1] = Prefix_datamode
        THEN parse_datamode(rest(Prefix_datamode))
        ELSE IF StrLen(line) = 14
        THEN parse_telemetry(line, <<"=", "=">>, 10, checks)
        ELSE IF StrLen(line) = 16 THEN parse_telemetry(line, <<>>, 12, checks)
        ELSE IF StrLen(line) = 24 THEN parse_telemetry(line, <<>>, 18, checks)
        ELSE IF StrLen(line) = 27 THEN parse_telemetry(line, <<"=">>, 20, checks)
        ELSE IF StrLen(line) = 46
        THEN parse_telemetry(line, <<"=", "=">>, 34, checks)
        ELSE IF StrLen(line) = 48 THEN parse_telemetry(line, <<>>, 36, checks)
        ELSE Err

ResponseError == [tag |-> "Error"]

\* impl From<Vec<u8>> for Response
ResponseFrom(vec, checks) ==
    LET r == parse(Trim(FromUtf8Lossy(vec)), checks)
    IN  IF r.tag = "Err" THEN ResponseError ELSE r

\* the build profile decides one thing: with overflow checks (a debug build)
\* the negation of i16::MIN panics, without them (a release build) it wraps.
\* What Response::from(vec) can produce, over the two profiles:
Responses(vec) == {ResponseFrom(vec, checks) : checks \in BOOLEAN}

ResponseTags ==
    { "SensorInfo", "Device", "Channel", "AutoOff", "Acknowledge", "Datamode",
      "Data", "Error" }

----------------------------------------------------------------------------
(* Lines on the wire.                                                      *)

Line_ok_restart ==
    <<"_", "o", "k", " ", "E", "S", "P", "_", "R", "E", "S", "T", "A",
      "R", "T", "CR", "LF">>

Line_ok_alive ==
    <<"_", "o", "k", "CR", "LF">>

Line_ok_wifi ==
    <<"_", "o", "k", " ", "W", "I", "F", "I", "_", "O", "N", "CR", "LF">>

Line_ok_quit ==
    <<"_", "o", "k", " ", "Q", "U", "I", "T", "_", "C", "O", "N", "F",
      "I", "G", "CR", "LF">>

Line_ch ==
    <<"_", "c", "h", " ", "1", "CR", "LF">>

Line_datamode ==
    <<"_", "d", "a", "t", "a", "m", "o", "d", "e", " ", "3", "CR", "LF">>

Line_auto_off ==
    <<"_", "a", "u", "t", "o", "_", "o", "f", "f", " ", "1", " ", "3",
      "0", "0", "0", "0", "0", "CR", "LF">>

Line_dev_2 ==
    <<"_", "d", "e", "v", " ", "2", " ", "E", "8", " ", "6", "8", " ",
      "E", "7", " ", "5", "3", " ", "5", "5", " ", "D", "E", "CR", "LF">>

Line_dev_2_nil ==
    <<"_", "d", "e", "v", " ", "2", " ", "0", " ", "0", " ", "0",
      " ", "0", " ", "0", " ", "0", "CR", "LF">>

Line_dev_23_nil ==
    <<"_", "d", "e", "v", " ", "2", "3", " ", "0", " ", "0", " ", "0",
      " ", "0", " ", "0", " ", "0", "CR", "LF">>

Line_dev_23 ==
    <<"_", "d", "e", "v", " ", "2", "3", " ", "E", "8", " ", "6", "8",
      " ", "E", "7", " ", "5", "3", " ", "5", "5", " ", "D", "D", "CR",
      "LF">>

Line_dev_24 ==
    <<"_", "d", "e", "v", " ", "2", "4", " ", "E", "8", " ", "6", "8",
      " ", "E", "7", " ", "5", "3", " ", "5", "5", " ", "D", "F", "CR",
      "LF">>

Line_si ==
    <<"_", "s", "i", " ", "7", " ", "Z", "k", "4", "I", "O", "v", "J",
      "t", "H", "Z", "g", "B", "C", "l", "o", "D", "A", "g", "A", "E",
      "A", "A", "A", "A", "A", "S", "g", "I", "A", "H", "w", "=", "CR",
      "LF">>

Line_data ==
    <<"B", "6", "c", "d", "t", "e", "6", "2", "7", "N", "J", "+", "G",
      "x", "y", "1", "r", "b", "Z", "s", "0", "5", "8", "b", "g", "P",
      "8", "CR", "LF">>

Line_data_zmin ==
    <<"B", "6", "c", "B", "A", "A", "I", "A", "A", "I", "A", "D", "A",
      "A", "Q", "A", "B", "Q", "A", "G", "A", "A", "c", "A", "g", "P",
      "8", "CR", "LF">>

Line_si_19 ==
    <<"_", "s", "i", " ", "7", " ", "Z", "k", "4", "I", "O", "v", "J",
      "t", "H", "Z", "g", "B", "C", "l", "o", "D", "A", "g", "A", "E",
      "A", "A", "A", "D", "A", "g", "=", "=">>

Line_si_20 ==
    <<"_", "s", "i", " ", "7", " ", "Z", "k", "4", "I", "O", "v", "J",
      "t", "H", "Z", "g", "B", "C", "l", "o", "D", "A", "g", "A", "E",
      "A", "A", "A", "A", "A", "S", "g", "=">>

Line_si_nodata ==
    <<"_", "s", "i", " ", "7">>

Line_si_extra ==
    <<"_", "s", "i", " ", "7", " ", "Z", "k", "4", "I", "O", "v", "J",
      "t", "H", "Z", "g", "B", "C", "l", "o", "D", "A", "g", "A", "E",
      "A", "A", "A", "D", "A", "g", "=", "=", " ", "1">>

Line_si_id256 ==
    <<"_", "s", "i", " ", "2", "5", "6", " ", "Z", "k", "4", "I", "O",
      "v", "J", "t", "H", "Z", "g", "B", "C", "l", "o", "D", "A", "g",
      "A", "E", "A", "A", "A", "D", "A", "g", "=", "=">>

Line_si_bad64 ==
    <<"_", "s", "i", " ", "7", " ", "Z", "k", "4", "I", "O", "v", "J",
      "t", "H", "Z", "g", "B", "C", "l", "o", "D", "A", "g", "A", "E",
      "A", "A", "A", "D", "A", "g", "!", "=">>

Line_ok_lower ==
    <<"_", "o", "k", " ", "e", "s", "p", "_", "r", "e", "s", "t", "a",
      "r", "t", "CR", "LF">>

Line_ok_extra ==
    <<"_", "o", "k", " ", "W", "I", "F", "I", "_", "O", "N", " ", "1",
      "CR", "LF">>

Line_ok_spaces ==
    <<" ", " ", "_", "o", "k", " ", " ", " ", "Q", "U", "I", "T", "_",
      "C", "O", "N", "F", "I", "G", " ", "CR", "LF">>

Line_dev_mixed ==
    <<"_", "d", "e", "v", " ", "2", "5", "5", " ", "a", " ", "0", "B",
      " ", "c", "0", " ", "D", " ", "1", " ", "f", "f", "CR", "LF">>

Line_dev_six ==
    <<"_", "d", "e", "v", " ", "2", " ", "E", "8", " ", "6", "8", " ",
      "E", "7", " ", "5", "3", " ", "5", "5", "CR", "LF">>

Line_dev_eight ==
    <<"_", "d", "e", "v", " ", "2", " ", "E", "8", " ", "6", "8", " ",
      "E", "7", " ", "5", "3", " ", "5", "5", " ", "D", "E", " ", "0",
      "CR", "LF">>

Line_dev_id256 ==
    <<"_", "d", "e", "v", " ", "2", "5", "6", " ", "0", " ", "0", " ",
      "0", " ", "0", " ", "0", " ", "0", "CR", "LF">>

Line_dev_noid ==
    <<"_", "d", "e", "v", " ", "x", " ", "0", " ", "0", " ", "0", " ",
      "0", " ", "0", " ", "0", "CR", "LF">>

Line_ch_255 ==
    <<"_", "c", "h", " ", "2", "5", "5", "CR", "LF">>

Line_ch_256 ==
    <<"_", "c", "h", " ", "2", "5", "6", "CR", "LF">>

Line_ch_plus ==
    <<"_", "c", "h", " ", "+", "5", "CR", "LF">>

Line_ch_minus ==
    <<"_", "c", "h", " ", "-", "1", "CR", "LF">>

Line_ch_two ==
    <<"_", "c", "h", " ", "1", " ", "2", "CR", "LF">>

Line_ch_none ==
    <<"_", "c", "h", "CR", "LF">>

Line_datamode_x ==
    <<"_", "d", "a", "t", "a", "m", "o", "d", "e", " ", "3", "x", "CR",
      "LF">>

Line_datamode_007 ==
    <<"_", "d", "a", "t", "a", "m", "o", "d", "e", " ", "0", "0", "7",
      "CR", "LF">>

Line_auto_off_max ==
    <<"_", "a", "u", "t", "o", "_", "o", "f", "f", " ", "2", "5", "5",
      " ", "1", "8", "4", "4", "6", "7", "4", "4", "0", "7", "3", "7",
      "0", "9", "5", "5", "1", "6", "1", "5", "CR", "LF">>

Line_auto_off_over ==
    <<"_", "a", "u", "t", "o", "_", "o", "f", "f", " ", "1", " ", "1",
      "8", "4", "4", "6", "7", "4", "4", "0", "7", "3", "7", "0", "9",
      "5", "5", "1", "6", "1", "6", "CR", "LF">>

Line_auto_off_one ==
    <<"_", "a", "u", "t", "o", "_", "o", "f", "f", " ", "1", "CR", "LF">>

Line_auto_off_three ==
    <<"_", "a", "u", "t", "o", "_", "o", "f", "f", " ", "1", " ", "2",
      " ", "3", "CR", "LF">>

Line_auto_off_256 ==
    <<"_", "a", "u", "t", "o", "_", "o", "f", "f", " ", "2", "5", "6",
      " ", "1", "CR", "LF">>

Line_junk ==
    <<"_", "h", "e", "l", "l", "o", "CR", "LF">>

Line_short_b64 ==
    <<"A", "A", "A", "A", "A", "A", "A", "A", "A", "A", "A", "A", "A",
      "A", "=", "=", "CR", "LF">>

\* the lines the handshake specification puts on the wire
HandshakeLines ==
    { Line_ok_restart, Line_ok_alive, Line_ok_wifi, Line_ok_quit, Line_ch,
      Line_datamode, Line_auto_off, Line_dev_2, Line_dev_2_nil, Line_dev_24,
      Line_junk }

Partial_ch == <<"_", "c", "h", " ">>

Rest_ch == <<"2", "CR", "LF">>

\* what a read_until that returns Ok appends: a line, or at the end of the
\* stream nothing, or bytes without a newline
ReaderChunks ==
    { Line_si, Line_dev_2, Line_ch, Line_auto_off, Line_ok_alive,
      Line_datamode, Line_data, Line_junk, Line_short_b64,
      Rest_ch, <<>>, Partial_ch }

\* what a read_until that times out had appended
ReaderPartials == { <<>>, Partial_ch }

\* Response::from is a function of the buffer: its results for the buffers
\* that the specifications below can build (up to two partial reads, then a
\* chunk) are kept in a table, and computed for any other buffer
TabledBuffers ==
    { p \o q \o c : p \in ReaderPartials, q \in ReaderPartials,
                    c \in ReaderChunks \cup HandshakeLines \cup {Line_dev_23} }

ResponseTable == [vec \in TabledBuffers |-> Responses(vec)]

Decode(vec) ==
    IF vec \in TabledBuffers THEN ResponseTable[vec] ELSE Responses(vec)

----------------------------------------------------------------------------
(* Commands (manager.rs).                                                  *)

MAX_UNISENSOR_COUNT == 24

Text_aprestart ==
    <<"_", "a", "p", "r", "e", "s", "t", "a", "r", "t">>

Text_alive ==
    <<"_", "a", "l", "i", "v", "e">>

Text_sensorlist ==
    <<"_", "s", "e", "n", "s", "o", "r", "l", "i", "s", "t">>

Text_wifistart ==
    <<"_", "w", "i", "f", "i", "s", "t", "a", "r", "t">>

Text_quitconfig ==
    <<"_", "q", "u", "i", "t", "c", "o", "n", "f", "i", "g">>

Text_alive_nores ==
    <<"_", "a", "l", "i", "v", "e", "_", "n", "o", "r", "e", "s">>

Text_savepairing ==
    <<"_", "s", "a", "v", "e", "p", "a", "i", "r", "i", "n", "g">>

\* a u8 formatted to three digits
Decimal_padded(n) ==
    << Digits[(n \div 100) + 1], Digits[((n \div 10) % 10) + 1],
       Digits[(n % 10) + 1] >>

\* format!("{id}") of a u8: its decimal digits
RECURSIVE Decimal(_)
Decimal(n) ==
    IF n < 10 THEN << Digits[n + 1] >>
    ELSE Decimal(n \div 10) \o << Digits[(n % 10) + 1] >>

\* a Command is a record: its variant in name, its arguments in id, min, max
Unit(name) == [name |-> name]

\* Command::as_str
as_str(cmd) ==
    CASE cmd.name = "RestartAP" -> Text_aprestart
      [] cmd.name = "Alive" -> Text_alive
      [] cmd.name = "ListSensor" -> Text_sensorlist
      [] cmd.name = "StartWifi" -> Text_wifistart
      [] cmd.name = "QuitConfig" -> Text_quitconfig
      [] cmd.name = "AliveNoResponse" -> Text_alive_nores
      [] cmd.name = "SavePairing" -> Text_savepairing
      [] cmd.name = "Config" -> <<"_", "c", "o", "n", "f", "i", "g">>
      [] cmd.name = "SetMagneticThreshold" ->
            <<"_", "s", "e", "t", "_", "m", "a", "g", "_", "t", "h", " ",
              "i", "d", ":">>
            \o Decimal(cmd.id) \o <<":", "b", " ">> \o Decimal(cmd.min)
            \o <<" ">> \o Decimal(cmd.max)
      [] cmd.name = "RequestSensorInfo" ->
            <<"_", "_", "s", "e", "n", "s", "i", "n", "f", "o", " ", "i",
              "d", ":">>
            \o Decimal(cmd.id) \o <<":", "b">>
      [] cmd.name = "EnableAhrs" ->
            <<"_", "s", "e", "t", "a", "h", "r", "s", "m", "o", "d", "e",
              " ", "i", "d", ":">>
            \o Decimal(cmd.id) \o <<":", "b", " ", "0">>
      [] cmd.name = "DisableAhrs" ->
            <<"_", "s", "e", "t", "a", "h", "r", "s", "m", "o", "d", "e",
              " ", "i", "d", ":">>
            \o Decimal(cmd.id) \o <<":", "b", " ", "1">>
      [] cmd.name = "Set60FPS" ->
            <<"_", "s", "e", "t", "m", "o", "d", "e", " ", "i", "d", ":">>
            \o Decimal(cmd.id) \o <<":", "b", " ", "3", " ", "2", " ", "0", " ", "4">>
      [] cmd.name = "Set60FPSLowPower" ->
            <<"_", "s", "e", "t", "m", "o", "d", "e", " ", "i", "d", ":">>
            \o Decimal(cmd.id) \o <<":", "b", " ", "4", " ", "2", " ", "1", "1", " ", "4">>
      [] cmd.name = "Set70FPS" ->
            <<"_", "s", "e", "t", "m", "o", "d", "e", " ", "i", "d", ":">>
            \o Decimal(cmd.id) \o <<":", "b", " ", "0", " ", "9", " ", "1", "9", " ", "0">>
      [] cmd.name = "Set144FPS" ->
            <<"_", "s", "e", "t", "m", "o", "d", "e", " ", "i", "d", ":">>
            \o Decimal(cmd.id) \o <<":", "b", " ", "2", " ", "4", " ", "3", "0", " ", "4">>
      [] cmd.name = "PowerOffSensor" ->
            <<"_", "s", "e", "n", "s", "o", "f", "f", " ", "i", "d", ":">>
            \o Decimal(cmd.id) \o <<":", "b">>
      [] cmd.name = "RestartSensor" ->
            <<"_", "r", "e", "s", "t", "a", "r", "t", " ", "i", "d", ":">>
            \o Decimal(cmd.id) \o <<":", "b">>
      [] cmd.name = "StartMagneticCalibration" ->
            <<"_", "s", "t", "a", "r", "t", "_", "m", "a", "g", "_", "c",
              "a", "l", "i", "b", " ", "i", "d", ":">>
            \o Decimal(cmd.id) \o <<":", "b">>
      [] cmd.name = "StopMagneticCalibration" ->
            <<"_", "s", "t", "o", "p", "_", "m", "a", "g", "_", "c", "a",
              "l", "i", "b", " ", "i", "d", ":">>
            \o Decimal(cmd.id) \o <<":", "b">>
      [] cmd.name = "SensorConfig" ->
            <<"_", "s", "e", "n", "s", "c", "o", "n", "f", " ", "i", "d",
              ":">>
            \o Decimal(cmd.id) \o <<":", "b">>
      [] cmd.name = "InitializeCalibration" ->
            <<"_", "i", "n", "i", "t", "c", "a", "l", "i", "b", "r", "a",
              "t", "i", "o", "n", " ", "i", "d", ":">>
            \o Decimal(cmd.id) \o <<>>
      [] cmd.name = "Restart" ->
            <<"_", "r", "e", "s", "t", "a", "r", "t", " ", "i", "d", ":">>
            \o Decimal(cmd.id) \o <<>>
\* the command text written without the newline
write_no_newline(cmd) == Append(port, as_str(Unit(cmd)))

\* writeln!(output, "{}", cmd.as_str())
writeln(cmd) == Append(port, as_str(Unit(cmd)) \o <<"LF">>)

----------------------------------------------------------------------------
(* The ingress thread (UnimotionManager::new, the spawned closure).        *)

\* the order in which flush drains the queues
QueueOrder ==
    << "SensorInfo", "Device", "Channel", "AutoOff", "Acknowledge", "Datamode",
       "Data", "Error" >>

EmptyQueues == [k \in ResponseTags |-> <<>>]

RECURSIVE SumLen(_, _)
SumLen(q, i) == IF i > 8 THEN 0 ELSE Len(q[QueueOrder[i]]) + SumLen(q, i + 1)

\* values waiting in the eight queues
Pending == SumLen(queue, 1)

\* ghost counters: read_until calls that returned, those that returned Ok,
\* values sent; last is the outcome of the latest read_until and, for Ok,
\* the variant its buffer decoded to.  A specification that does not bound
\* the reads keeps them off (on = FALSE).  flushed is the number of reads
\* that had returned when flush was last called; sends is the number of
\* send_command calls that have returned; seen[id] is the address of
\* the latest Device value with that id that begin has consumed, and whether
\* that value replaced a different address.  wire is what has been received
\* since the last newline on the wire, line the latest buffer handed to
\* Response::from.  order, kept by a specification that turns it on, tells of
\* the values the reader has enqueued: early, that a reply to a later step of
\* the handshake was enqueued while the reply begin was waiting for had not
\* arrived; devices, how many of the first 24 Device values have arrived;
\* addr[id], the address of the latest of them with that id.
NoOrder == [on |-> FALSE, early |-> FALSE, devices |-> 0,
            addr |-> [i \in 0..(MAX_UNISENSOR_COUNT - 1) |-> MacNil]]

NotSeen == [got |-> FALSE, addr |-> MacNil, changed |-> FALSE]

Ghost0 == [reads |-> 0, dispatched |-> 0, enqueued |-> 0, last |-> "none",
           variant |-> "none", flushed |-> 0, sends |-> 0,
           wire |-> <<>>, line |-> <<>>, order |-> NoOrder,
           seen |-> [i \in 0..(MAX_UNISENSOR_COUNT - 1) |-> NotSeen]]

Observe(on, outcome, variant, sent) ==
    IF on
    THEN [reads |-> g.reads + 1,
          dispatched |-> g.dispatched + (IF outcome = "Ok" THEN 1 ELSE 0),
          enqueued |-> g.enqueued + (IF sent THEN 1 ELSE 0),
          last |-> outcome, variant |-> variant, flushed |-> g.flushed,
          sends |-> g.sends, wire |-> g.wire, line |-> g.line,
          order |-> g.order, seen |-> g.seen]
    ELSE g

EndsLine(bytes) == bytes # <<>> /\ bytes[Len(bytes)] = "LF"

\* the ghost record after a read that appended chunk; decoded tells whether
\* the buffer was handed to Response::from
Received_bytes(o, on, chunk, decoded) ==
    IF on
    THEN [o EXCEPT !.wire = IF EndsLine(chunk) THEN <<>> ELSE g.wire \o chunk,
                   !.line = IF decoded THEN buffer \o chunk ELSE g.line]
    ELSE o

\* the kinds begin receives in its steps 1 to 5, in program order
StepKinds == << "Acknowledge", "Channel", "Datamode", "AutoOff", "Device" >>

\* the position in StepKinds of the reply begin has yet to receive (0 when
\* begin is past the enumeration or has returned)
Awaited ==
    CASE pc \in {"send_RestartAP", "ack_RestartAP"} -> 1
      [] pc = "channel" -> 2
      [] pc = "datamode" -> 3
      [] pc = "auto_off" -> 4
      [] pc = "devices" -> 5
      [] OTHER -> 0

\* ghost: a value of this kind, enqueued now, is on the wire before the
\* reply of an earlier step
Early(kind) ==
    /\ Awaited > 0
    /\ queue[StepKinds[Awaited]] = <<>>
    /\ \E j \in (Awaited + 1)..Len(StepKinds) : StepKinds[j] = kind

\* the ghost record after the reader enqueued r
Arrived(o, r) ==
    LET w == o.order
        counted == r.tag = "Device" /\ w.devices < MAX_UNISENSOR_COUNT
    IN  IF w.on
        THEN [o EXCEPT !.order =
                 [on |-> TRUE,
                  early |-> w.early \/ Early(r.tag),
                  devices |-> w.devices + (IF counted THEN 1 ELSE 0),
                  addr |-> IF counted /\ r.id \in DOMAIN w.addr
                           THEN [w.addr EXCEPT ![r.id] = r.addr]
                           ELSE w.addr]]
        ELSE o

\* what a sender puts on a queue: the Response, with the ghost fields n (the
\* number of the read that completed it) and epoch (the lines written to the
\* port when it was sent)
Entry(r, on) == [v |-> r, n |-> IF on THEN g.reads + 1 ELSE 0, epoch |-> Len(port)]

\* a send that succeeds without a receiver
send_always_ok == TRUE

\* tx.send(value).is_ok(): an unbounded channel takes the value unless its
\* receiver has been dropped
send_is_ok == receivers

\* two arms of the match with their senders exchanged
route_crossed(r) ==
    IF r.tag = "Channel" THEN "Datamode"
    ELSE IF r.tag = "Datamode" THEN "Channel" ELSE r.tag

\* the match on Response::from(buffer.clone()): the queue each variant is
\* sent on
route(r) == r.tag

\* a channel that hands out the newest value first
push_front(q, e) == <<e>> \o q

\* tx.send(value) on an unbounded channel with a receiver
enqueue(q, e) == Append(q, e)

\* read_until returned Ok(n) after appending chunk (n = Len(chunk)) to the
\* buffer: a complete line, or what was left at end of stream
ReadOk(chunk, on) ==
    /\ reader = "running"
    /\ \E r \in Decode(buffer \o chunk) :
       LET buf == buffer \o chunk
       IN  IF r.tag = "Panic"
           THEN /\ reader' = "panicked"
                /\ buffer' = buf
                /\ queue' = queue
                /\ g' = Received_bytes(Observe(on, "Ok", "Panic", FALSE), on, chunk, TRUE)
           ELSE IF ~send_is_ok
           THEN /\ reader' = "no_receiver"
                /\ buffer' = buf
                /\ queue' = queue
                /\ g' = Received_bytes(Observe(on, "Ok", r.tag, FALSE), on, chunk, TRUE)
           ELSE /\ reader' = reader
                /\ buffer' = <<>>
                /\ queue' = [queue EXCEPT ![route(r)] = enqueue(@, Entry(r, on))]
                /\ g' = Arrived(Received_bytes(Observe(on, "Ok", r.tag, TRUE), on,
                                               chunk, TRUE), r)
    /\ UNCHANGED << input, output, receivers, port, pc,
                    counter, res, sensors, ret, fl, rcvd >>

\* a TimedOut that is handled like any other read error
ReadTimedOutBreaks(partial, on) ==
    /\ reader = "running"
    /\ reader' = "read_error"
    /\ buffer' = buffer \o partial
    /\ g' = Received_bytes(Observe(on, "TimedOut", "none", FALSE), on, partial,
                           FALSE)
    /\ UNCHANGED << input, output, queue, receivers,
                    port, pc, counter, res, sensors, ret, fl, rcvd >>

\* read_until returned Err(TimedOut); the bytes it had read stay in the buffer
ReadTimedOut(partial, on) ==
    /\ reader = "running"
    /\ buffer' = buffer \o partial
    /\ g' = Received_bytes(Observe(on, "TimedOut", "none", FALSE), on, partial,
                           FALSE)
    /\ UNCHANGED << input, output, reader, queue, receivers,
                    port, pc, counter, res, sensors, ret, fl, rcvd >>

\* a read error that is retried like a TimedOut
ReadFailedContinues(on) ==
    /\ reader = "running"
    /\ g' = Observe(on, "Err", "none", FALSE)
    /\ UNCHANGED << input, output, reader, buffer, queue, receivers,
                    port, pc, counter, res, sensors, ret, fl, rcvd >>

\* read_until returned any other Err: break
ReadFailed(on) ==
    /\ reader = "running"
    /\ reader' = "read_error"
    /\ g' = Observe(on, "Err", "none", FALSE)
    /\ UNCHANGED << input, output, buffer, queue, receivers,
                    port, pc, counter, res, sensors, ret, fl, rcvd >>

\* every Sender lives in the thread's closure: they are dropped when it ends
senders_dropped == reader # "running"

----------------------------------------------------------------------------
(* The session thread: UnimotionManager::new runs begin; on Ok the manager *)
(* is kept (pc = "ready"), on Err or on a panic it is dropped.             *)

\* UniSensorDevice::empty()
EmptyDevice == [id |-> 255, mac_addr |-> MacNil, sensor_info |-> "None"]

Indices == 0..(MAX_UNISENSOR_COUNT - 1)

\* [UniSensorDevice::empty(); MAX_UNISENSOR_COUNT]
EmptySensors == [i \in Indices |-> EmptyDevice]

\* [(255, MacAddr6::nil()); MAX_UNISENSOR_COUNT]
EmptyRes == [i \in Indices |-> [id |-> 255, addr |-> MacNil]]

\* the two errors of an empty channel exchanged
recv_swapped == IF senders_dropped THEN "Timeout" ELSE "Disconnected"

\* an empty channel that never reports its senders gone
recv_times_out == "Timeout"

\* the result of recv / recv_timeout on an empty channel
recv_empty == IF senders_dropped THEN "Disconnected" ELSE "Timeout"

\* the steps of begin in program order, and the step that follows each
BeginSteps ==
    << "send_RestartAP", "ack_RestartAP", "channel", "datamode", "auto_off",
       "devices", "send_Alive", "ack_Alive", "send_StartWifi", "ack_StartWifi",
       "send_QuitConfig", "ack_QuitConfig", "ready" >>

\* begin with the device step left out
StepSkipsDevices(step) ==
    IF step = "auto_off" THEN "send_Alive"
    ELSE BeginSteps[(CHOOSE i \in 1..Len(BeginSteps) : BeginSteps[i] = step) + 1]

StepAfter(step) ==
    BeginSteps[(CHOOSE i \in 1..Len(BeginSteps) : BeginSteps[i] = step) + 1]

\* ghost history: what begin has taken from the queues, in order (ack is the
\* kind of an Acknowledge, "none" for the other queues)
Received(kind, ack) == [kind |-> kind, ack |-> ack]

\* the commands begin writes, in program order
BeginCommands == << "RestartAP", "Alive", "StartWifi", "QuitConfig" >>

\* every acknowledge taken for the expected one
ack_any(expected, ack) == TRUE

\* Ok(kind) arm of the match on an acknowledge
ack_matches(expected, ack) == ack = expected

\* what a begin that returns Ok has taken from the queues
HandshakeReceipts ==
    << Received("Acknowledge", "RestartAP"), Received("Channel", "none"),
       Received("Datamode", "none"), Received("AutoOff", "none") >>
    \o [i \in 1..MAX_UNISENSOR_COUNT |-> Received("Device", "none")]
    \o << Received("Acknowledge", "Alive"), Received("Acknowledge", "StartWifi"),
          Received("Acknowledge", "QuitConfig") >>

\* ret: the operation, where it was (a step of begin, or the queue asked),
\* how it ended, the value returned, and the ghost field alive (the ingress
\* thread was running when the operation returned)
Return(op, at, cause, value) ==
    [op |-> op, at |-> at, cause |-> cause, value |-> value,
     alive |-> reader = "running"]

Returned(value, cause) == Return("begin", pc, cause, value)

CrossbeamChannelError == [tag |-> "CrossbeamChannelError"]

IOError == [tag |-> "IOError"]

UnexpectedAckError(expected, actual) ==
    [tag |-> "UnexpectedAckError", expected |-> expected, actual |-> actual]

\* begin returns Err (or panics) inside new, at manager.begin()?: new returns
\* at once (or unwinds) and drops the Arc holding the manager, and with it
\* the port and the eight Receivers; the values still queued are discarded
Fails(value, cause) ==
    /\ pc' = "dropped"
    /\ ret' = Returned(value, cause)
    /\ receivers' = FALSE
    /\ queue' = EmptyQueues

\* writeln!(output, "{}", Command::X.as_str())?
BeginWrite(cmd) ==
    /\ pc = "send_" \o cmd
    /\ \/ /\ port' = writeln(cmd)
          /\ pc' = StepAfter(pc)
          /\ UNCHANGED << ret, receivers, queue >>
       \/ /\ port' = port
          /\ Fails(IOError, "write")
    /\ UNCHANGED << input, output, reader, buffer, counter, res, sensors, fl,
                    g, rcvd >>

\* match Self::get_acknowledge_timeout(..) { Ok(X) => (), Ok(ack) => return
\* Err(UnexpectedAckError(X, ack)), Err(_) => return Err(CrossbeamChannelError) }
BeginAck(expected) ==
    /\ pc = "ack_" \o expected
    /\ IF queue["Acknowledge"] # <<>>
       THEN LET e == Head(queue["Acknowledge"])
            IN  /\ rcvd' = Append(rcvd, Received("Acknowledge", e.v.ack))
                /\ IF ack_matches(expected, e.v.ack)
                   THEN /\ queue' = [queue EXCEPT !["Acknowledge"] = Tail(@)]
                        /\ pc' = StepAfter(pc)
                        /\ ret' = IF StepAfter(pc) = "ready"
                                  THEN Returned("Ok", "none") ELSE ret
                        /\ receivers' = receivers
                   ELSE Fails(UnexpectedAckError(expected, e.v.ack), "mismatch")
       ELSE /\ rcvd' = rcvd
            /\ Fails(CrossbeamChannelError, recv_empty)
    /\ UNCHANGED << input, output, reader, buffer, port, counter, res, sensors,
                    fl, g >>

\* one receiver for all kinds: the queue, in the order of the Channels
\* struct, that holds a value
rx_first_waiting(kind) ==
    IF \E i \in 1..Len(QueueOrder) : queue[QueueOrder[i]] # <<>>
    THEN QueueOrder[CHOOSE i \in 1..Len(QueueOrder) :
                       /\ queue[QueueOrder[i]] # <<>>
                       /\ \A j \in 1..(i - 1) : queue[QueueOrder[j]] = <<>>]
    ELSE kind

\* chls.channel_rx / chls.datamode_rx / chls.auto_off_rx .recv_timeout(..):
\* the queue a getter receives from is the one of its own kind
rx(kind) == kind

\* match Self::get_channel_timeout / get_datamode_timeout /
\* get_auto_off_timeout { Ok(_) => (), Err(_) => return Err(..) }
BeginRecv(step, kind) ==
    /\ pc = step
    /\ IF queue[rx(kind)] # <<>>
       THEN /\ queue' = [queue EXCEPT ![rx(kind)] = Tail(@)]
            /\ rcvd' = Append(rcvd, Received(kind, "none"))
            /\ pc' = StepAfter(pc)
            /\ UNCHANGED << ret, receivers >>
       ELSE /\ rcvd' = rcvd
            /\ Fails(CrossbeamChannelError, recv_empty)
    /\ UNCHANGED << input, output, reader, buffer, port, counter, res, sensors,
                    fl, g >>

\* for (id, addr) in devices { if addr.is_nil() == false { self.sensors[id as
\* usize] = UniSensorDevice { id, mac_addr: addr, sensor_info: None } } }
Populate(table, devices) ==
    [i \in Indices |->
        IF \E j \in Indices : ~is_nil(devices[j].addr) /\ devices[j].id = i
        THEN LET j == CHOOSE j \in Indices :
                          /\ ~is_nil(devices[j].addr) /\ devices[j].id = i
                          /\ \A h \in Indices :
                                ~is_nil(devices[h].addr) /\ devices[h].id = i
                                    => h <= j
             IN  [id |-> devices[j].id, mac_addr |-> devices[j].addr,
                  sensor_info |-> "None"]
        ELSE table[i]]

\* an enumeration that keeps the first value of an id
record_first(table, id, addr) ==
    IF table[id].id = 255 THEN [table EXCEPT ![id] = [id |-> id, addr |-> addr]]
    ELSE table

\* Ok((id, addr)) => res[id as usize] = (id, addr)
record_device(table, id, addr) == [table EXCEPT ![id] = [id |-> id, addr |-> addr]]

\* a loop that stops one value short
devices_done_early(n) == n >= MAX_UNISENSOR_COUNT - 1

\* if counter >= MAX_UNISENSOR_COUNT { break Ok(res); }
devices_done(n) == n >= MAX_UNISENSOR_COUNT

\* one turn of the loop of get_devices_timeout (counter and res are its
\* locals, set when begin calls it) and, on its Ok(devices), the table update
\* of begin
BeginDevices ==
    /\ pc = "devices"
    /\ IF queue["Device"] # <<>>
       THEN LET e == Head(queue["Device"])
            IN  /\ rcvd' = Append(rcvd, Received("Device", "none"))
                /\ IF e.v.id \notin Indices
                   THEN \* res[id as usize]: index out of bounds
                        /\ Fails(Panic, "index")
                        /\ UNCHANGED << counter, res, sensors, g >>
                   ELSE /\ queue' = [queue EXCEPT !["Device"] = Tail(@)]
                        /\ res' = record_device(res, e.v.id, e.v.addr)
                        /\ g' = [g EXCEPT !.seen[e.v.id] =
                                    [got |-> TRUE, addr |-> e.v.addr,
                                     changed |-> @.got /\ @.addr # e.v.addr]]
                        /\ counter' = counter + 1
                        /\ UNCHANGED << ret, receivers >>
                        /\ IF devices_done(counter + 1)
                           THEN /\ sensors' = Populate(sensors, res')
                                /\ pc' = StepAfter(pc)
                           ELSE /\ sensors' = sensors
                                /\ pc' = pc
       ELSE /\ Fails(CrossbeamChannelError, recv_empty)
            /\ UNCHANGED << rcvd, counter, res, sensors, g >>
    /\ UNCHANGED << input, output, reader, buffer, port, fl >>

----------------------------------------------------------------------------
(* Operations on a session that begin has set up (pc = "ready").           *)

\* get_channel, get_auto_off, get_acknowledge, get_datamode, get_data
\* (timed = FALSE: recv blocks while the channel is empty and connected) and
\* their _timeout forms (timed = TRUE: recv_timeout)
Getters == {"Channel", "AutoOff", "Acknowledge", "Datamode", "Data"}

get(kind, timed) ==
    /\ pc = "ready"
    /\ IF queue[kind] # <<>>
       THEN /\ queue' = [queue EXCEPT ![kind] = Tail(@)]
            /\ ret' = Return("get", kind, "Ok", Head(queue[kind]))
       ELSE /\ timed \/ recv_empty = "Disconnected"
            /\ queue' = queue
            /\ ret' = Return("get", kind, recv_empty, "none")
    /\ UNCHANGED << input, output, reader, buffer, receivers,
                    port, pc, counter, res, sensors, fl, g, rcvd >>

\* sensors(): the entries of the table with a non-nil address, in index
\* order, pushed by value into a new Vec
SensorsVec ==
    SelectSeq([k \in 1..MAX_UNISENSOR_COUNT |-> sensors[k - 1]],
              LAMBDA d : is_nil(d.mac_addr) = FALSE)

Sensors ==
    /\ pc = "ready"
    /\ ret' = Return("sensors", "none", "Ok", SensorsVec)
    /\ UNCHANGED << input, output, reader, buffer, queue, receivers,
                    port, pc, counter, res, sensors, fl, g, rcvd >>

\* send_command(cmd): writeln! formats the text and the newline as two
\* pieces and writes each to the port; an Err of either write is returned as
\* UnimotionError::IOError, with nothing or the text alone on the port
SendCommand(cmd) ==
    /\ pc = "ready"
    /\ \/ /\ port' = writeln(cmd)
          /\ ret' = Return("send_command", cmd, "Ok", "Ok")
       \/ /\ port' \in { port, Append(port, as_str(Unit(cmd))) }
          /\ ret' = Return("send_command", cmd, "write", IOError)
    /\ g' = [g EXCEPT !.sends = @ + 1]
    /\ UNCHANGED << input, output, reader, buffer, queue, receivers,
                    pc, counter, res, sensors, fl, rcvd >>

\* flush is called
FlushCall ==
    /\ pc = "ready"
    /\ pc' = "flush"
    /\ fl' = 1
    /\ g' = [g EXCEPT !.flushed = g.reads]
    /\ UNCHANGED << input, output, reader, buffer, queue,
                    receivers, port, counter, res, sensors, ret, rcvd >>

\* a flush that tries each queue once (if let for while let)
FlushStepOnce ==
    /\ pc = "flush"
    /\ queue' = [queue EXCEPT ![QueueOrder[fl]] =
                    IF @ # <<>> THEN Tail(@) ELSE @]
    /\ IF fl < Len(QueueOrder)
       THEN /\ fl' = fl + 1
            /\ UNCHANGED << pc, ret >>
       ELSE /\ fl' = 1
            /\ pc' = "ready"
            /\ ret' = Return("flush", "none", "Ok", "none")
    /\ UNCHANGED << input, output, reader, buffer, receivers,
                    port, counter, res, sensors, g, rcvd >>

\* one try_recv of flush: a value is discarded, or the loop of this queue
\* ends and flush goes on to the next queue (after the eighth, it returns)
FlushStep ==
    /\ pc = "flush"
    /\ IF queue[QueueOrder[fl]] # <<>>
       THEN /\ queue' = [queue EXCEPT ![QueueOrder[fl]] = Tail(@)]
            /\ UNCHANGED << pc, fl, ret >>
       ELSE /\ queue' = queue
            /\ IF fl < Len(QueueOrder)
               THEN /\ fl' = fl + 1
                    /\ UNCHANGED << pc, ret >>
               ELSE /\ fl' = 1
                    /\ pc' = "ready"
                    /\ ret' = Return("flush", "none", "Ok", "none")
    /\ UNCHANGED << input, output, reader, buffer, receivers,
                    port, counter, res, sensors, g, rcvd >>

----------------------------------------------------------------------------
(* Pure-function harness: Response::from applied to one byte vector.       *)

Fill(n, c) == [i \in 1..n |-> c]

\* line lengths around the six that parse recognizes
TelemetryLengths == {13, 14, 15, 16, 17, 24, 27, 46, 48}

\* ends of a line: full symbols, one or two '=', a symbol with non-zero low
\* bits, a byte outside the alphabet, a byte that is not UTF-8
LineEnds == { <<>>, <<"=">>, <<"=", "=">>, <<"B">>, <<"B", "=">>, <<"!">>, <<"xFF">> }

LineTerminators == { <<>>, <<"CR", "LF">> }

TelemetryInputs ==
    { Fill(n - Len(e), c) \o e \o t :
        n \in TelemetryLengths, c \in {"A", "/"}, e \in LineEnds,
        t \in LineTerminators }

ParseInputs ==
    TelemetryInputs \cup
    { Line_ok_restart, Line_ok_alive, Line_ok_wifi, Line_ok_quit, Line_ch,
      Line_datamode, Line_auto_off, Line_dev_2, Line_dev_2_nil,
      Line_dev_23_nil, Line_dev_24, Line_si, Line_si_19, Line_si_20,
      Line_si_nodata, Line_si_extra, Line_si_id256, Line_si_bad64,
      Line_ok_lower, Line_ok_extra, Line_ok_spaces,
      Line_dev_mixed, Line_dev_six, Line_dev_eight, Line_dev_id256,
      Line_dev_noid,
      Line_ch_255, Line_ch_256, Line_ch_plus, Line_ch_minus, Line_ch_two,
      Line_ch_none, Line_datamode_x, Line_datamode_007, Line_auto_off_max,
      Line_auto_off_over, Line_auto_off_one, Line_auto_off_three,
      Line_auto_off_256,
      Line_data, Line_data_zmin, Line_junk, Line_short_b64, <<>> }

NoOutput == [tag |-> "none"]

\* Response::from(input)
Classify ==
    /\ output = NoOutput
    /\ \E checks \in BOOLEAN :
          output' = [ResponseFrom(input, checks) EXCEPT !.tag = @]
    /\ UNCHANGED << input, reader, buffer, queue, receivers,
                    port, pc, counter, res, sensors, ret, fl, g, rcvd >>

----------------------------------------------------------------------------
(* Specifications.                                                         *)

NoReturn == [op |-> "none", at |-> "none", cause |-> "none", value |-> "none",
             alive |-> TRUE]

\* the state new() has built when it calls begin: the ingress thread runs,
\* nothing has been read or written
Constructed ==
    /\ reader = "running"
    /\ buffer = <<>>
    /\ queue = EmptyQueues
    /\ receivers = TRUE
    /\ port = <<>>
    /\ counter = 0
    /\ res = EmptyRes
    /\ sensors = EmptySensors
    /\ ret = NoReturn
    /\ fl = 1
    /\ g = Ghost0
    /\ rcvd = <<>>

\* Spec: a session from its construction: the ingress thread and begin
MaxPending == 2

Init ==
    /\ input = <<>>
    /\ output = NoOutput
    /\ Constructed
    /\ pc = "send_RestartAP"

Ingress ==
    /\ Pending < MaxPending
    /\ \E line \in HandshakeLines : ReadOk(line, FALSE)

IngressFails == ReadFailed(FALSE)

Begin ==
    \/ \E cmd \in {"RestartAP", "Alive", "StartWifi", "QuitConfig"} :
          BeginWrite(cmd) \/ BeginAck(cmd)
    \/ BeginRecv("channel", "Channel")
    \/ BeginRecv("datamode", "Datamode")
    \/ BeginRecv("auto_off", "AutoOff")
    \/ BeginDevices

Next == Ingress \/ IngressFails \/ Begin \/ Sensors

Spec == Init /\ [][Next]_vars

\* SpecOrder: Spec with the ghost record order kept, on the lines steps 1 to
\* 5 of the handshake expect and lines that decode to Data and Error values
OrderLines ==
    { Line_ok_restart, Line_ch, Line_datamode, Line_auto_off, Line_dev_2,
      Line_dev_2_nil, Line_dev_23, Line_data, Line_junk }

InitOrder ==
    /\ input = <<>>
    /\ output = NoOutput
    /\ reader = "running"
    /\ buffer = <<>>
    /\ queue = EmptyQueues
    /\ receivers = TRUE
    /\ port = <<>>
    /\ counter = 0
    /\ res = EmptyRes
    /\ sensors = EmptySensors
    /\ ret = NoReturn
    /\ fl = 1
    /\ g = [Ghost0 EXCEPT !.order.on = TRUE]
    /\ rcvd = <<>>
    /\ pc = "send_RestartAP"

IngressOrder ==
    /\ Pending < MaxPending
    /\ \E line \in OrderLines : ReadOk(line, FALSE)

NextOrder == IngressOrder \/ IngressFails \/ Begin

SpecOrder == InitOrder /\ [][NextOrder]_vars

\* SpecReader: the ingress thread and the operations of a session, from the
\* two states in which new() leaves a session: begin returned Ok and the
\* manager is kept, or begin returned Err and the manager was dropped.  The
\* ghost counters run, and MaxReads bounds the calls of read_until.
MaxReads == 3

Addr_dev_2 == <<232, 104, 231, 83, 85, 222>>

\* begin returned Ok: every reply came in time, the 24 Device lines were
\* "_dev 2 E8 68 E7 53 55 DE", and the queues are empty again
SessionReady ==
    /\ reader = "running"
    /\ buffer = <<>>
    /\ queue = EmptyQueues
    /\ receivers = TRUE
    /\ port = << Text_aprestart \o <<"LF">>, Text_alive \o <<"LF">>,
                 Text_wifistart \o <<"LF">>, Text_quitconfig \o <<"LF">> >>
    /\ pc = "ready"
    /\ counter = MAX_UNISENSOR_COUNT
    /\ res = [EmptyRes EXCEPT ![2] = [id |-> 2, addr |-> Addr_dev_2]]
    /\ sensors = [EmptySensors EXCEPT ![2] =
                     [id |-> 2, mac_addr |-> Addr_dev_2, sensor_info |-> "None"]]
    /\ ret = [op |-> "begin", at |-> "ack_QuitConfig", cause |-> "none",
              value |-> "Ok", alive |-> TRUE]
    /\ fl = 1
    /\ g = [Ghost0 EXCEPT !.seen[2] = [got |-> TRUE, addr |-> Addr_dev_2,
                                       changed |-> FALSE]]
    /\ rcvd = HandshakeReceipts

\* begin returned Err: no reply to RestartAP came in time, and new dropped
\* the manager
SessionDropped ==
    /\ reader = "running"
    /\ buffer = <<>>
    /\ queue = EmptyQueues
    /\ receivers = FALSE
    /\ port = << Text_aprestart \o <<"LF">> >>
    /\ pc = "dropped"
    /\ counter = 0
    /\ res = EmptyRes
    /\ sensors = EmptySensors
    /\ ret = [op |-> "begin", at |-> "ack_RestartAP", cause |-> "Timeout",
              value |-> CrossbeamChannelError, alive |-> TRUE]
    /\ fl = 1
    /\ g = Ghost0
    /\ rcvd = <<>>

InitReader ==
    /\ input = <<>>
    /\ output = NoOutput
    /\ SessionReady \/ SessionDropped

Reads ==
    /\ g.reads < MaxReads
    /\ \E chunk \in ReaderChunks : ReadOk(chunk, TRUE)

ReadTimesOut ==
    /\ g.reads < MaxReads
    /\ \E partial \in ReaderPartials : ReadTimedOut(partial, TRUE)

ReadFails ==
    /\ g.reads < MaxReads
    /\ ReadFailed(TRUE)

Gets == \E kind \in Getters, timed \in BOOLEAN : get(kind, timed)

NextReader == Reads \/ ReadTimesOut \/ ReadFails \/ Gets

SpecReader == InitReader /\ [][NextReader]_vars

\* SpecFlush: flush on a session that begin has set up, with the ingress
\* thread running beside it and get_* calls before and after
FlushChunks == { Line_si, Line_ch, Line_data, Line_junk }

InitFlush ==
    /\ input = <<>>
    /\ output = NoOutput
    /\ SessionReady

FlushReads ==
    /\ g.reads < MaxReads
    /\ \E chunk \in FlushChunks : ReadOk(chunk, TRUE)

NextFlush == FlushReads \/ ReadFails \/ Gets \/ FlushCall \/ FlushStep

SpecFlush == InitFlush /\ [][NextFlush]_vars

\* SpecSend: send_command on a session that begin has set up, with the
\* ingress thread filling the queues beside it
MaxSends == 2

\* one command that begin sends as well, and three that it does not
SendCommands == { "Alive", "ListSensor", "AliveNoResponse", "SavePairing" }

SendChunks == { Line_ok_alive, Line_ch }

SendReads ==
    /\ g.reads < MaxReads
    /\ \E chunk \in SendChunks : ReadOk(chunk, TRUE)

Sends ==
    /\ g.sends < MaxSends
    /\ \E cmd \in SendCommands : SendCommand(cmd)

NextSend == SendReads \/ Sends

SpecSend == InitFlush /\ [][NextSend]_vars

\* SpecParse: Response::from as a function of its input
InitParse ==
    /\ input \in ParseInputs
    /\ output = NoOutput
    /\ Constructed
    /\ pc = "send_RestartAP"

NextParse == Classify

SpecParse == InitParse /\ [][NextParse]_vars

\* SpecQuaternion: Quaternion::from as a function of its eight bytes, in a
\* build with and in a build without overflow checks.  The little-endian
\* words are 0, 1, i16::MAX, i16::MIN and -1.
QuaternionWords == { <<0, 0>>, <<1, 0>>, <<255, 127>>, <<0, 128>>, <<255, 255>> }

QuaternionInputs ==
    { a \o b \o c \o d : a \in QuaternionWords, b \in QuaternionWords,
                          c \in QuaternionWords, d \in QuaternionWords }

InitQuaternion ==
    /\ input \in QuaternionInputs
    /\ output = NoOutput
    /\ Constructed
    /\ pc = "send_RestartAP"

\* Quaternion::from(input)
Convert ==
    /\ output = NoOutput
    /\ \E checks \in BOOLEAN : output' = QuaternionFrom(input, checks)
    /\ UNCHANGED << input, reader, buffer, queue, receivers,
                    port, pc, counter, res, sensors, ret, fl, g, rcvd >>

NextQuaternion == Convert

SpecQuaternion == InitQuaternion /\ [][NextQuaternion]_vars

\* SpecCommand: Command::as_str as a function of the command
UnitCommands ==
    { "RestartAP", "Alive", "ListSensor", "StartWifi", "QuitConfig",
      "AliveNoResponse", "SavePairing" }

IdCommands ==
    { "RequestSensorInfo", "EnableAhrs", "DisableAhrs", "Set60FPS",
      "Set60FPSLowPower", "Set70FPS", "Set144FPS", "PowerOffSensor",
      "RestartSensor", "StartMagneticCalibration", "StopMagneticCalibration",
      "SensorConfig", "Config", "InitializeCalibration", "Restart" }

\* u8 arguments with one, two and three digits
CommandIds == {0, 9, 10, 99, 100, 255}

CommandThresholds == {0, 42, 255}

CommandInputs ==
    { Unit(name) : name \in UnitCommands }
    \cup { [name |-> name, id |-> id] : name \in IdCommands, id \in CommandIds }
    \cup { [name |-> "SetMagneticThreshold", id |-> id, min |-> min, max |-> max] :
             id \in CommandIds, min \in CommandThresholds,
             max \in CommandThresholds }

InitCommand ==
    /\ input \in CommandInputs
    /\ output = NoOutput
    /\ Constructed
    /\ pc = "send_RestartAP"

\* input.as_str()
Format ==
    /\ output = NoOutput
    /\ output' = [tag |-> "String", text |-> as_str(input)]
    /\ UNCHANGED << input, reader, buffer, queue, receivers,
                    port, pc, counter, res, sensors, ret, fl, g, rcvd >>

NextCommand == Format

SpecCommand == InitCommand /\ [][NextCommand]_vars

----------------------------------------------------------------------------
(* Properties.                                                             *)

\* C1: for every input byte sequence Response::from returns one of the eight
\* Response variants and never panics, padded base64 lines of 16, 24 or 48
\* characters included (they are to yield Response::Error)
C1_ResponseFromIsTotal == output = NoOutput \/ output.tag \in ResponseTags

IsPrefix(s, t) == Len(s) <= Len(t) /\ s = SubSeq(t, 1, Len(s))

\* the line each command of begin puts on the port
CommandLines ==
    [i \in 1..Len(BeginCommands) |-> as_str(Unit(BeginCommands[i])) \o <<"LF">>]

\* the receipts that precede the i-th command of begin
ReceiptsBefore(i) ==
    IF i = 1 THEN <<>>
    ELSE SubSeq(HandshakeReceipts, 1, MAX_UNISENSOR_COUNT + 2 + i)

BeginReturnedOk == ret.op = "begin" /\ ret.cause = "none"

\* C2: the commands begin has written are a prefix of RestartAP, Alive,
\* StartWifi, QuitConfig; Alive is written only after Acknowledge(RestartAP),
\* a Channel, a Datamode, an AutoOff and 24 Device values were received in
\* that order, StartWifi only after Acknowledge(Alive), QuitConfig only after
\* Acknowledge(StartWifi), and begin returns Ok only after
\* Acknowledge(QuitConfig)
C2_BeginOrder ==
    /\ IsPrefix(port, CommandLines)
    /\ \A i \in 1..Len(port) : IsPrefix(ReceiptsBefore(i), rcvd)
    /\ BeginReturnedOk => rcvd = HandshakeReceipts /\ port = CommandLines

\* begin has returned Ok
C2_Witness == pc = "ready" /\ BeginReturnedOk /\ Len(port) = 4

\* the acknowledges begin has received
AckReceipts == SelectSeq(rcvd, LAMBDA x : x.kind = "Acknowledge")

\* C3: when the acknowledge received at the i-th acknowledge step is not the
\* expected one, begin has returned UnexpectedAckError(expected, actual); it
\* is the last value begin has received, and the i-th command is the last
\* one written
C3_UnexpectedAck ==
    \A i \in 1..Len(AckReceipts) :
        AckReceipts[i].ack # BeginCommands[i] =>
            /\ i = Len(AckReceipts)
            /\ rcvd[Len(rcvd)] = AckReceipts[i]
            /\ Len(port) = i
            /\ pc = "dropped"
            /\ ret.op = "begin" /\ ret.cause = "mismatch"
            /\ ret.value = UnexpectedAckError(BeginCommands[i], AckReceipts[i].ack)

\* begin met StartWifi's acknowledge where it expected Alive's
C3_Witness ==
    /\ ret.op = "begin" /\ ret.cause = "mismatch"
    /\ ret.value = UnexpectedAckError("Alive", "StartWifi")
    /\ Len(port) = 2

\* the queues that a step has left as they were, or shorter
NoQueueGrows == \A k \in ResponseTags : Len(queue'[k]) <= Len(queue[k])

\* a read_until returned Ok in this step, and the reader is still running
Dispatches == g'.dispatched = g.dispatched + 1 /\ reader' = "running"

\* C4: a dispatched line puts exactly one value on exactly one queue, the
\* queue of the variant the line decoded to; every queued value lies on the
\* queue of its variant; while the reader runs, the values ever enqueued are
\* as many as the lines dispatched
C4_OneValuePerLine ==
    /\ [](reader = "running" => g.enqueued = g.dispatched)
    /\ [](\A k \in ResponseTags :
             \A i \in 1..Len(queue[k]) : queue[k][i].v.tag = k)
    /\ [][Dispatches =>
             /\ g'.variant \in ResponseTags
             /\ g'.enqueued = g.enqueued + 1
             /\ \E e \in {queue'[g'.variant][Len(queue'[g'.variant])]} :
                   /\ e.v.tag = g'.variant
                   /\ queue' = [queue EXCEPT ![g'.variant] = Append(@, e)]]_vars

\* three lines were dispatched and their values lie on three queues
C4_Witness ==
    /\ reader = "running" /\ g.dispatched = 3
    /\ queue["Data"] # <<>> /\ queue["Error"] # <<>> /\ queue["SensorInfo"] # <<>>

\* C5: each queue holds its values in the order their lines were completed,
\* and the value a get_* call returned was completed before every value
\* still on that queue
C5_Fifo ==
    /\ \A k \in ResponseTags : \A i, j \in 1..Len(queue[k]) :
           i < j => queue[k][i].n < queue[k][j].n
    /\ ret.op = "get" /\ ret.cause = "Ok" =>
           \A i \in 1..Len(queue[ret.at]) : ret.value.n < queue[ret.at][i].n

\* a get_* call returned the first of three values of one kind
C5_Witness ==
    /\ ret.op = "get" /\ ret.cause = "Ok" /\ ret.value.n = 1
    /\ Len(queue[ret.at]) = 2

\* C6: after a read error other than TimedOut the reader has ended for good:
\* no later step reads, enqueues or restarts it
C6_ReadErrorTerminates ==
    /\ [](g.last = "Err" => reader = "read_error")
    /\ [][reader = "read_error" =>
             reader' = "read_error" /\ g' = g /\ buffer' = buffer /\ NoQueueGrows]_vars

\* the read failed after two values were enqueued, and a get_* call followed
C6_Witness ==
    /\ reader = "read_error" /\ g.last = "Err" /\ g.enqueued = 2
    /\ ret.op = "get" /\ ~ret.alive

\* C7: a read that returns TimedOut leaves the reader running and the eight
\* queues as they were
C7_TimedOutRetries ==
    /\ [](g.last = "TimedOut" => reader = "running")
    /\ [][g'.reads = g.reads + 1 /\ g'.last = "TimedOut" =>
             reader' = "running" /\ queue' = queue /\ g'.enqueued = g.enqueued]_vars

\* two consecutive reads timed out and the third dispatched a line
C7_Witness ==
    /\ g.reads = 3 /\ g.dispatched = 1 /\ g.enqueued = 1 /\ g.last = "Ok"
    /\ reader = "running"

\* C8: once the receivers are dropped, the first line the reader dispatches
\* stops it: nothing is enqueued, and no later step reads or enqueues
C8_NoReceiverStops ==
    /\ [](~receivers /\ g.dispatched > 0 => reader # "running")
    /\ [](~receivers => queue = EmptyQueues)
    /\ [][reader = "no_receiver" =>
             reader' = "no_receiver" /\ g' = g /\ buffer' = buffer /\ queue' = queue]_vars

\* the receivers were dropped, a read timed out, and the next line stopped
\* the reader
C8_Witness ==
    /\ ~receivers /\ reader = "no_receiver" /\ g.reads = 2 /\ g.dispatched = 1

\* C9: no line content stops the reader: while the session holds the
\* receivers, the reader is running after every line it dispatched, and the
\* line's value was enqueued
C9_NoLineStopsReader ==
    receivers /\ g.last = "Ok" =>
        reader = "running" /\ g.variant \in ResponseTags /\ g.enqueued = g.dispatched

\* C10 as stated: once the reader has terminated (on a fatal read error or
\* on a queue without receivers), no get_* or get_*_timeout call returns a
\* value
C10_NoValueAfterTermination ==
    reader \in {"read_error", "no_receiver"} /\ ret.op = "get" /\ ~ret.alive =>
        ret.cause \in {"Timeout", "Disconnected"}

\* C10 amended: once the reader has terminated no queue gains a value; a
\* get_* or get_*_timeout call made after that returns a value enqueued
\* before the read that ended the reader or, the queue being empty, ends in
\* a disconnected error
C10_OnlyEarlierValues ==
    /\ [](ret.op = "get" /\ ~ret.alive =>
             IF ret.cause = "Ok" THEN ret.value.n < g.reads
             ELSE ret.cause = "Disconnected")
    /\ [][reader # "running" => reader' = reader /\ NoQueueGrows]_vars

\* the reader has ended on a read error, and a get_* call on an empty queue
\* ended in a disconnected error after a value had been enqueued
C10_Witness ==
    /\ reader = "read_error" /\ g.enqueued > 0
    /\ ret.op = "get" /\ ~ret.alive /\ ret.cause = "Disconnected"

\* C11: a get_*_timeout call on an empty queue ends in Timeout when the
\* reader is alive and in Disconnected when it has terminated, and a call on
\* a queue that holds values returns the head value and neither error
C11_TimeoutOrDisconnected ==
    /\ [](ret.op = "get" =>
             /\ ret.cause \in {"Ok", "Timeout", "Disconnected"}
             /\ ret.cause = "Timeout" => ret.alive
             /\ ret.cause = "Disconnected" => ~ret.alive)
    /\ [][g' = g /\ ret'.op = "get" =>
             IF queue[ret'.at] # <<>>
             THEN /\ ret'.cause = "Ok"
                  /\ ret'.value = Head(queue[ret'.at])
                  /\ queue' = [queue EXCEPT ![ret'.at] = Tail(@)]
             ELSE /\ ret'.cause = (IF reader = "running" THEN "Timeout"
                                                        ELSE "Disconnected")
                  /\ queue' = queue]_vars

\* a call on an empty queue timed out while the reader was alive and values
\* waited on other queues
C11_Witness ==
    ret.op = "get" /\ ret.cause = "Timeout" /\ ret.alive /\ Pending > 0

\* the values waiting in the queues
Queued == UNION { {queue[k][i] : i \in 1..Len(queue[k])} : k \in ResponseTags }

\* C12: when flush has returned, every value in a queue was enqueued after
\* flush was called, and no get_* call made since has returned a value
\* enqueued before it was called
C12_FlushDiscards ==
    pc = "ready" =>
        /\ \A e \in Queued : e.n > g.flushed
        /\ ret.op = "get" /\ ret.cause = "Ok" => ret.value.n > g.flushed

\* flush was called after two lines had been enqueued and has returned; the
\* value of a third line, enqueued while flush ran, is in its queue
C12_Witness ==
    /\ pc = "ready" /\ ret.op = "flush"
    /\ g.flushed = 2 /\ g.enqueued = 3 /\ Pending = 1

\* C13: the error begin returns identifies the step that failed and whether
\* a receive timed out or its queue was disconnected; the value returned
\* for a timeout at the first acknowledge step is therefore returned for no
\* failure at another step and for no disconnect
C13_ErrorIdentifiesFailure ==
    /\ ret.op = "begin" /\ ret.cause \in {"Timeout", "Disconnected"}
    /\ ret.value = CrossbeamChannelError
    => ret.at = "ack_RestartAP" /\ ret.cause = "Timeout"

\* the Device values begin has received
DeviceReceipts == Len(SelectSeq(rcvd, LAMBDA x : x.kind = "Device"))

\* the steps of begin up to the device enumeration
EnumerationSteps ==
    { "send_RestartAP", "ack_RestartAP", "channel", "datamode", "auto_off",
      "devices" }

\* C14: begin is past the device enumeration, has written Alive or has
\* changed the device table only when 24 Device values were received,
\* repeated ids counted; when a receive of the enumeration timed out or met
\* a disconnected queue, fewer than 24 were received, begin has returned an
\* error, the device table is as it was and Alive was not written
C14_Enumeration ==
    /\ pc \notin EnumerationSteps \cup {"dropped"} => DeviceReceipts = MAX_UNISENSOR_COUNT
    /\ Len(port) >= 2 => DeviceReceipts = MAX_UNISENSOR_COUNT
    /\ sensors # EmptySensors => DeviceReceipts = MAX_UNISENSOR_COUNT
    /\ ret.op = "begin" /\ ret.at = "devices"
          /\ ret.cause \in {"Timeout", "Disconnected"} =>
            /\ DeviceReceipts < MAX_UNISENSOR_COUNT
            /\ pc = "dropped"
            /\ sensors = EmptySensors
            /\ Len(port) = 1

\* the wait for the 24th Device value timed out
C14_Witness ==
    /\ ret.op = "begin" /\ ret.at = "devices" /\ ret.cause = "Timeout"
    /\ DeviceReceipts = MAX_UNISENSOR_COUNT - 1

\* ids whose latest consumed Device value carried a non-nil address
Addressed == { i \in 0..(MAX_UNISENSOR_COUNT - 1) :
                   g.seen[i].got /\ is_nil(g.seen[i].addr) = FALSE }

C16_SendCommand ==
    /\ [](ret.op = "send_command" =>
            \/ ret.cause = "Ok"
            \/ ret.cause = "write" /\ ret.value = IOError)
    /\ [][g'.sends # g.sends =>
            /\ ret'.op = "send_command"
            /\ ret'.cause = "Ok" =>
                    port' = Append(port, as_str(Unit(ret'.at)) \o <<"LF">>)
            /\ queue' = queue
            /\ rcvd' = rcvd
            /\ sensors' = sensors]_vars

\* a command was sent and its call returned Ok while no acknowledgement was
\* queued and another queue held a value
C16_Witness ==
    /\ ret.op = "send_command"
    /\ ret.cause = "Ok"
    /\ port[Len(port)] = Text_alive \o <<"LF">>
    /\ queue["Acknowledge"] = <<>>
    /\ queue["Channel"] # <<>>

Prefixes ==
    { Prefix_si, Prefix_dev, Prefix_ch, Prefix_auto_off, Prefix_ok,
      Prefix_datamode }

AsResponse(r) == IF r.tag = "Err" THEN ResponseError ELSE r

\* C17: a line whose first word is none of the six prefixes and whose
\* trimmed length is none of 14, 16, 24, 27, 46, 48 yields Response::Error;
\* a line whose first word is one of the six prefixes gets the result of
\* that prefix's sub-parser, whatever its length.
C17_PrefixBeforeLength ==
    output # NoOutput =>
        LET line == Trim(FromUtf8Lossy(input))
            word == Split(line)[1]
            rest(prefix) == TrimStart(SliceFrom(line, Len(prefix)))
        IN  /\ word \notin Prefixes /\ StrLen(line) \notin {14, 16, 24, 27, 46, 48}
                => output.tag = "Error"
            /\ word = Prefix_si => output = AsResponse(parse_si(rest(Prefix_si)))
            /\ word = Prefix_dev => output = AsResponse(parse_dev(rest(Prefix_dev)))
            /\ word = Prefix_ch => output = AsResponse(parse_ch(rest(Prefix_ch)))
            /\ word = Prefix_auto_off
                => output = AsResponse(parse_auto_off(rest(Prefix_auto_off)))
            /\ word = Prefix_ok => output = AsResponse(parse_ok(rest(Prefix_ok)))
            /\ word = Prefix_datamode
                => output = AsResponse(parse_datamode(rest(Prefix_datamode)))

\* a _dev line of 24 characters was classified as a Device
C17_Witness ==
    /\ output # NoOutput
    /\ output.tag = "Device"
    /\ StrLen(Trim(FromUtf8Lossy(input))) = 24

\* the decoded length of each telemetry line length without a Datagram parser
Unimplemented == [n \in {14, 16, 24, 46, 48} |->
                     CASE n = 14 -> 10 [] n = 16 -> 12 [] n = 24 -> 18
                       [] n = 46 -> 34 [] n = 48 -> 36]

\* the padding parse appends before decoding a line of n characters
PadOf(n) == IF n \in {14, 46} THEN <<"=", "=">> ELSE <<>>

\* what Response::from reports for an unrecognized line
Unrecognized == ResponseFrom(Line_junk, TRUE)

\* C18: an un-prefixed telemetry line of length 14, 16, 24, 46 or 48
\* (decoded length 10, 12, 18, 34 or 36) never yields Response::Data, and
\* what is reported for it differs from what is reported for a malformed or
\* unrecognized line.
C18_NotImplementedIsDistinct ==
    LET line == Trim(FromUtf8Lossy(input))
        n == StrLen(line)
    IN  /\ output # NoOutput
        /\ Split(line)[1] \notin Prefixes
        /\ n \in DOMAIN Unimplemented
        /\ B64Decode(line \o PadOf(n)).ok
        /\ Len(B64Decode(line \o PadOf(n)).bytes) = Unimplemented[n]
        => /\ output.tag # "Data"
           /\ output # Unrecognized

\* C19: every un-prefixed 27-character line that is valid base64 once one
\* '=' is appended yields Data(d) with d.id = byte 0, d.battery_voltage =
\* byte 1, quaternion slot 0 decoded from bytes 2..10, slot 1 from bytes
\* 10..18, slots 2 and 3 absent, d.ahrs_enable = byte 18 and
\* d.magnetic_power = byte 19 of the decoded bytes.
C19_DataFromLine27 ==
    LET line == Trim(FromUtf8Lossy(input))
        dec == B64Decode(line \o <<"=">>)
    IN  /\ output # NoOutput
        /\ Split(line)[1] \notin Prefixes
        /\ StrLen(line) = 27
        /\ dec.ok
        => /\ output.tag = "Data"
           /\ output.data.id = dec.bytes[1]
           /\ output.data.battery_voltage = dec.bytes[2]
           /\ output.data.quaternions =
                  << QuaternionFrom(SubSeq(dec.bytes, 3, 10), FALSE),
                     QuaternionFrom(SubSeq(dec.bytes, 11, 18), FALSE),
                     NoQuaternion, NoQuaternion >>
           /\ output.data.ahrs_enable = dec.bytes[19]
           /\ output.data.magnetic_power = dec.bytes[20]

\* the signed reading of the little-endian word at a byte offset of input
WordAt(offset) == AsI16(input[offset + 1] + input[offset + 2] * 256)

\* C20: for every 8-byte input, Quaternion::from succeeds and returns w, y, x
\* equal to the signed words at offsets 0, 2, 6 and z equal to the negation
\* of the signed word at offset 4, so that z has the opposite sign of the
\* raw value whenever that is not zero, -32768 (bytes 00 80) included.
C20_QuaternionFromIsTotal ==
    output # NoOutput =>
        /\ output.tag = "Quaternion"
        /\ output.w = WordAt(0)
        /\ output.y = WordAt(2)
        /\ output.x = WordAt(6)
        /\ output.z = 0 - WordAt(4)
        /\ WordAt(4) > 0 => output.z < 0
        /\ WordAt(4) < 0 => output.z > 0

\* the byte at a 0-based offset of a decoded datagram
ByteAt(bytes, offset) == bytes[offset + 1]

\* C21: an _si line yields SensorInfo(id, info) exactly when it has two
\* fields, a byte id and base64 that decodes to 19 or 23 bytes, and Error
\* otherwise; info takes version, mystery byte, address, channel, tx power
\* and datamode from bytes 0, 1, 2..8, 8, 9, 11, the six-axis and IMU-flip
\* flags from bit 0 of bytes 17 and 18, and the thresholds (255, 255) in the
\* 19-byte form, (byte 21, byte 22) in the 23-byte form.
C21_SensorInfoLine ==
    LET line == Trim(FromUtf8Lossy(input))
        v == Split(TrimStart(SliceFrom(line, 3)))
    IN  output # NoOutput /\ Split(line)[1] = <<"_", "s", "i">> =>
        IF /\ Len(v) = 2
           /\ ParseU8(v[1]) \in 0..255
           /\ B64Decode(v[2]).ok
           /\ Len(B64Decode(v[2]).bytes) \in {19, 23}
        THEN LET b == B64Decode(v[2]).bytes
             IN  /\ output.tag = "SensorInfo"
                 /\ output.id = ParseU8(v[1])
                 /\ output.info.sensor_version = ByteAt(b, 0)
                 /\ output.info.mystery_value = ByteAt(b, 1)
                 /\ output.info.mac_address = [k \in 1..6 |-> ByteAt(b, k + 1)]
                 /\ output.info.channel = ByteAt(b, 8)
                 /\ output.info.tx_power = ByteAt(b, 9)
                 /\ output.info.datamode = ByteAt(b, 11)
                 /\ output.info.six_axis = (ByteAt(b, 17) % 2 = 1)
                 /\ output.info.imu_flip = (ByteAt(b, 18) % 2 = 1)
                 /\ output.info.min_mag_th = (IF Len(b) = 19 THEN 255 ELSE ByteAt(b, 21))
                 /\ output.info.max_mag_th = (IF Len(b) = 19 THEN 255 ELSE ByteAt(b, 22))
        ELSE output.tag = "Error"

\* the 23-byte line of the test was classified, with its thresholds 0, 124
C21_Witness ==
    /\ output # NoOutput
    /\ output.tag = "SensorInfo"
    /\ output.id = 7
    /\ output.info.min_mag_th = 0
    /\ output.info.max_mag_th = 124

\* the closed table of acknowledgement texts
AckTexts ==
    { << <<>>, "Alive" >>,
      << <<"E", "S", "P", "_", "R", "E", "S", "T", "A", "R", "T">>, "RestartAP" >>,
      << <<"W", "I", "F", "I", "_", "O", "N">>, "StartWifi" >>,
      << <<"Q", "U", "I", "T", "_", "C", "O", "N", "F", "I", "G">>, "QuitConfig" >> }

\* C22: for a line whose first word is _ok, the remainder after trimming
\* maps empty to Acknowledge(Alive), ESP_RESTART to Acknowledge(RestartAP),
\* WIFI_ON to Acknowledge(StartWifi), QUIT_CONFIG to
\* Acknowledge(QuitConfig), and every other remainder to Response::Error.
C22_AcknowledgeTable ==
    LET line == Trim(FromUtf8Lossy(input))
        remainder == TrimStart(SliceFrom(line, 3))
    IN  output # NoOutput /\ Split(line)[1] = <<"_", "o", "k">> =>
        IF \E p \in AckTexts : p[1] = remainder
        THEN /\ output.tag = "Acknowledge"
             /\ << remainder, output.ack >> \in AckTexts
        ELSE output.tag = "Error"

\* the five bytes "_ok" CR LF were classified as Acknowledge(Alive)
C22_Witness ==
    /\ input = <<"_", "o", "k", "CR", "LF">>
    /\ output # NoOutput
    /\ output.tag = "Acknowledge"
    /\ output.ack = "Alive"

\* a decimal numeral of a byte: digits only, value at most 255
IsDecimalByte(f) ==
    /\ f # <<>>
    /\ \A i \in 1..Len(f) : f[i] \in DigitSet
    /\ Len(StripZeros(f)) <= 3
    /\ DecValue(f, 0) <= 255

\* one or two hex digits
IsHexField(f) == Len(f) \in {1, 2} /\ \A i \in 1..Len(f) : f[i] \in HexSet

\* the value of a hex field, a single digit d read as 0d
HexField(f) ==
    IF Len(f) = 1 THEN HexVal(f[1]) ELSE HexVal(f[1]) * 16 + HexVal(f[2])

\* C23: a _dev line with seven fields, the first a decimal byte and the
\* other six of one or two hex digits each, yields Device(id, addr) with
\* address byte k the value of hex field k (so six 0 fields give the nil
\* address); another field count or an id that is not a byte yields Error.
C23_DeviceLine ==
    LET line == Trim(FromUtf8Lossy(input))
        v == Split(TrimStart(SliceFrom(line, 4)))
    IN  output # NoOutput /\ Split(line)[1] = <<"_", "d", "e", "v">> =>
        /\ Len(v) # 7 => output.tag = "Error"
        /\ Len(v) = 7 /\ ParseU8(v[1]) \notin 0..255 => output.tag = "Error"
        /\ Len(v) = 7 /\ IsDecimalByte(v[1]) /\ (\A k \in 2..7 : IsHexField(v[k]))
           => /\ output.tag = "Device"
              /\ output.id = DecValue(v[1], 0)
              /\ output.addr = [k \in 1..6 |-> HexField(v[k + 1])]

\* a line with one-digit and lower-case hex fields was classified
C23_Witness ==
    /\ input = Line_dev_mixed
    /\ output # NoOutput
    /\ output.tag = "Device"
    /\ output.id = 255
    /\ output.addr = <<10, 11, 192, 13, 1, 255>>

\* the digits of a decimal integer written with an optional plus sign and
\* without its leading zeros, or <<>> when the field is not such a numeral
Numeral(f) ==
    LET body == IF f # <<>> /\ Head(f) = "+" THEN Tail(f) ELSE f
    IN  IF body # <<>> /\ \A i \in 1..Len(body) : body[i] \in DigitSet
        THEN StripZeros(body) ELSE <<>>

\* the numeral denotes an integer in 0..255
IsByte(f) ==
    /\ Numeral(f) # <<>>
    /\ Len(Numeral(f)) <= 3
    /\ DecValue(Numeral(f), 0) <= 255

\* the numeral denotes an integer in 0..2^64 - 1
IsU64(f) == Numeral(f) # <<>> /\ DigitsLeq(Numeral(f), U64MaxDigits)

\* C24: _ch n yields Channel(n) and _datamode n yields Datamode(n) exactly
\* when the remainder is one decimal integer in 0..255; _auto_off a b
\* yields AutoOff(a, b) exactly when the remainder is two space-separated
\* decimal integers, a in 0..255 and b in 0..2^64 - 1; every other
\* remainder yields Response::Error.
C24_NumericReplies ==
    LET line == Trim(FromUtf8Lossy(input))
        word == Split(line)[1]
        rest == TrimStart(SliceFrom(line, Len(word)))
        v == Split(rest)
    IN  output # NoOutput =>
        /\ word = <<"_", "c", "h">> =>
              IF IsByte(rest)
              THEN output.tag = "Channel"
                   /\ output.channel = DecValue(Numeral(rest), 0)
              ELSE output.tag = "Error"
        /\ word = <<"_", "d", "a", "t", "a", "m", "o", "d", "e">> =>
              IF IsByte(rest)
              THEN output.tag = "Datamode"
                   /\ output.dm = DecValue(Numeral(rest), 0)
              ELSE output.tag = "Error"
        /\ word = <<"_", "a", "u", "t", "o", "_", "o", "f", "f">> =>
              IF Len(v) = 2 /\ IsByte(v[1]) /\ IsU64(v[2])
              THEN output.tag = "AutoOff"
                   /\ output.enable = DecValue(Numeral(v[1]), 0)
                   /\ output.duration = Numeral(v[2])
              ELSE output.tag = "Error"

\* the largest AutoOff was decoded: a = 255, b = 2^64 - 1
C24_Witness ==
    /\ input = Line_auto_off_max
    /\ output # NoOutput
    /\ output.tag = "AutoOff"
    /\ output.enable = 255
    /\ output.duration = U64MaxDigits

\* the command table: the text of each command, its arguments as places
CommandTable(name) ==
    CASE name = "RestartAP" ->
            << [lit |-> <<"_", "a", "p", "r", "e", "s", "t", "a", "r", "t">>] >>
      [] name = "Alive" ->
            << [lit |-> <<"_", "a", "l", "i", "v", "e">>] >>
      [] name = "ListSensor" ->
            << [lit |-> <<"_", "s", "e", "n", "s", "o", "r", "l", "i", "s",
                         "t">>] >>
      [] name = "StartWifi" ->
            << [lit |-> <<"_", "w", "i", "f", "i", "s", "t", "a", "r", "t">>] >>
      [] name = "QuitConfig" ->
            << [lit |-> <<"_", "q", "u", "i", "t", "c", "o", "n", "f", "i",
                         "g">>] >>
      [] name = "RequestSensorInfo" ->
            << [lit |-> <<"_", "_", "s", "e", "n", "s", "i", "n", "f", "o",
                         " ", "i", "d", ":">>],
               [arg |-> "id"],
               [lit |-> <<":", "b">>] >>
      [] name = "AliveNoResponse" ->
            << [lit |-> <<"_", "a", "l", "i", "v", "e", "_", "n", "o", "r",
                         "e", "s">>] >>
      [] name = "EnableAhrs" ->
            << [lit |-> <<"_", "s", "e", "t", "a", "h", "r", "s", "m", "o",
                         "d", "e", " ", "i", "d", ":">>],
               [arg |-> "id"],
               [lit |-> <<":", "b", " ", "0">>] >>
      [] name = "DisableAhrs" ->
            << [lit |-> <<"_", "s", "e", "t", "a", "h", "r", "s", "m", "o",
                         "d", "e", " ", "i", "d", ":">>],
               [arg |-> "id"],
               [lit |-> <<":", "b", " ", "1">>] >>
      [] name = "Set60FPS" ->
            << [lit |-> <<"_", "s", "e", "t", "m", "o", "d", "e", " ", "i",
                         "d", ":">>],
               [arg |-> "id"],
               [lit |-> <<":", "b", " ", "3", " ", "2", " ", "0", " ", "4">>] >>
      [] name = "Set60FPSLowPower" ->
            << [lit |-> <<"_", "s", "e", "t", "m", "o", "d", "e", " ", "i",
                         "d", ":">>],
               [arg |-> "id"],
               [lit |-> <<":", "b", " ", "4", " ", "2", " ", "1", "1", " ",
                         "4">>] >>
      [] name = "Set70FPS" ->
            << [lit |-> <<"_", "s", "e", "t", "m", "o", "d", "e", " ", "i",
                         "d", ":">>],
               [arg |-> "id"],
               [lit |-> <<":", "b", " ", "0", " ", "9", " ", "1", "9", " ",
                         "0">>] >>
      [] name = "Set144FPS" ->
            << [lit |-> <<"_", "s", "e", "t", "m", "o", "d", "e", " ", "i",
                         "d", ":">>],
               [arg |-> "id"],
               [lit |-> <<":", "b", " ", "2", " ", "4", " ", "3", "0", " ",
                         "4">>] >>
      [] name = "PowerOffSensor" ->
            << [lit |-> <<"_", "s", "e", "n", "s", "o", "f", "f", " ", "i",
                         "d", ":">>],
               [arg |-> "id"],
               [lit |-> <<":", "b">>] >>
      [] name = "RestartSensor" ->
            << [lit |-> <<"_", "r", "e", "s", "t", "a", "r", "t", " ", "i",
                         "d", ":">>],
               [arg |-> "id"],
               [lit |-> <<":", "b">>] >>
      [] name = "StartMagneticCalibration" ->
            << [lit |-> <<"_", "s", "t", "a", "r", "t", "_", "m", "a", "g",
                         "_", "c", "a", "l", "i", "b", " ", "i", "d", ":">>],
               [arg |-> "id"],
               [lit |-> <<":", "b">>] >>
      [] name = "StopMagneticCalibration" ->
            << [lit |-> <<"_", "s", "t", "o", "p", "_", "m", "a", "g", "_",
                         "c", "a", "l", "i", "b", " ", "i", "d", ":">>],
               [arg |-> "id"],
               [lit |-> <<":", "b">>] >>
      [] name = "SetMagneticThreshold" ->
            << [lit |-> <<"_", "s", "e", "t", "_", "m", "a", "g", "_", "t",
                         "h", " ", "i", "d", ":">>],
               [arg |-> "id"],
               [lit |-> <<":", "b", " ">>],
               [arg |-> "min"],
               [lit |-> <<" ">>],
               [arg |-> "max"] >>
      [] name = "SensorConfig" ->
            << [lit |-> <<"_", "s", "e", "n", "s", "c", "o", "n", "f", " ",
                         "i", "d", ":">>],
               [arg |-> "id"],
               [lit |-> <<":", "b">>] >>
      [] name = "Config" ->
            << [lit |-> <<"_", "c", "o", "n", "f", "i", "g">>] >>
      [] name = "InitializeCalibration" ->
            << [lit |-> <<"_", "i", "n", "i", "t", "c", "a", "l", "i", "b",
                         "r", "a", "t", "i", "o", "n", " ", "i", "d", ":">>],
               [arg |-> "id"] >>
      [] name = "Restart" ->
            << [lit |-> <<"_", "r", "e", "s", "t", "a", "r", "t", " ", "i",
                         "d", ":">>],
               [arg |-> "id"] >>
      [] name = "SavePairing" ->
            << [lit |-> <<"_", "s", "a", "v", "e", "p", "a", "i", "r", "i",
                         "n", "g">>] >>

\* text is the template with each place filled by the decimal numeral,
\* without leading zeros, of that argument of cmd
RECURSIVE Renders(_, _, _)
Renders(text, template, cmd) ==
    IF template = <<>> THEN text = <<>>
    ELSE LET piece == Head(template)
         IN  IF "lit" \in DOMAIN piece
             THEN /\ IsPrefix(piece.lit, text)
                  /\ Renders(SubSeq(text, Len(piece.lit) + 1, Len(text)),
                             Tail(template), cmd)
             ELSE \E k \in 1..3 :
                     /\ k <= Len(text)
                     /\ IsDecimalByte(SubSeq(text, 1, k))
                     /\ StripZeros(SubSeq(text, 1, k)) = SubSeq(text, 1, k)
                     /\ DecValue(SubSeq(text, 1, k), 0) = cmd[piece.arg]
                     /\ Renders(SubSeq(text, k + 1, Len(text)),
                                Tail(template), cmd)

\* C25: Command::as_str returns, for every command and every argument,
\* exactly the text of the command table, the arguments in decimal.
C25_CommandTable ==
    output # NoOutput =>
        /\ output.tag = "String"
        /\ Renders(output.text, CommandTable(input.name), input)

\* SetMagneticThreshold(100, 0, 255) was formatted
C25_Witness ==
    /\ output # NoOutput
    /\ input.name = "SetMagneticThreshold"
    /\ input.id = 100 /\ input.min = 0 /\ input.max = 255
    /\ output.text =
          <<"_", "s", "e", "t", "_", "m", "a", "g", "_", "t", "h", " ",
            "i", "d", ":", "1", "0", "0", ":", "b", " ", "0", " ", "2",
            "5", "5">>

\* the newline bytes of a byte sequence
Newlines(bytes) == { i \in 1..Len(bytes) : bytes[i] = "LF" }

\* C26: each Response the reader dispatches is decoded from exactly the
\* bytes received after the previously dispatched newline up to and
\* including the newline that completes the line: bytes received before a
\* read timeout are part of it, no byte of an earlier dispatched line is,
\* and the line buffer is empty after the dispatch.
C26_LineFraming ==
    [][g'.enqueued = g.enqueued + 1 =>
          /\ IsPrefix(g.wire, g'.line)
          /\ Newlines(g'.line) = { Len(g'.line) }
          /\ g'.wire = <<>>
          /\ buffer' = <<>>]_vars

\* C27: no operation indexes the 24-entry device table or the 24-entry
\* enumeration array out of range: for every Device value with an id in
\* 0..255 that begin's enumeration consumes, the index used is within
\* 0..23 and the operation completes without a failure.
C27_IndexInRange ==
    /\ ret.cause # "index"
    /\ \A i \in DOMAIN res : res[i].id \in {255, i}

AckSteps == { "ack_" \o BeginCommands[i] : i \in 1..Len(BeginCommands) }

C29_EnqueueOnlyCompleteLines ==
    [][g'.enqueued # g.enqueued => EndsLine(g'.line)]_vars

\* the reply the step begin is at can take: the acknowledge of RestartAP, a
\* Device value with an id below 24, any Channel, Datamode or AutoOff value
Expected(e) ==
    CASE Awaited = 1 -> e.v.ack = "RestartAP"
      [] Awaited = 5 -> e.v.id \in Indices
      [] OTHER -> TRUE

\* begin has taken a step that receives
Receives == pc' # pc \/ rcvd' # rcvd

\* the device table that the Device values, in the order they arrived in,
\* give whatever arrived between them
TableOf(addr) ==
    [i \in Indices |->
        IF is_nil(addr[i]) THEN EmptyDevice
        ELSE [id |-> i, mac_addr |-> addr[i], sensor_info |-> "None"]]

\* C30: the outcome of steps 1 to 5 of the handshake does not depend on the
\* order in which replies of different kinds arrive: a step whose own queue
\* holds the reply it expects succeeds and takes that reply, whatever the
\* other queues hold (values for later steps, Data or Error values) and
\* leaves them as they are, and once step 5 is done the device table is
\* the one that the first 24 Device values give in the order they arrived
\* in among themselves.
C30_OrderIndependent ==
    /\ [][(/\ pc \in {"ack_RestartAP", "channel", "datamode", "auto_off",
                       "devices"}
           /\ Receives
           /\ queue[StepKinds[Awaited]] # <<>>
           /\ Expected(Head(queue[StepKinds[Awaited]]))) =>
              /\ pc' # "dropped"
              /\ queue' = [queue EXCEPT ![StepKinds[Awaited]] = Tail(@)]
              /\ g'.order = g.order]_vars
    /\ [](pc = "send_Alive" =>
              /\ g.order.devices = MAX_UNISENSOR_COUNT
              /\ sensors = TableOf(g.order.addr))

\* steps 1 to 5 are done although a reply to a later step had arrived before
\* the reply of an earlier one, with an Error value and a Data value waiting
\* and more than one sensor in the table
C30_Witness ==
    /\ pc = "send_Alive"
    /\ g.order.early
    /\ queue["Error"] # <<>>
    /\ queue["Data"] # <<>>
    /\ sensors[2] # EmptyDevice
    /\ sensors[23] # EmptyDevice

====
